---- MODULE Spec2Model ----
(***************************************************************************)
(* Metadata consolidation pipeline of the jarvis repository:               *)
(*   src/src/data_fetcher.py        fetch_all (fetch orchestrator)         *)
(*   src/src/utils/deduplicator.py  deduplicate_metadata                   *)
(*   src/src/utils/query_processor.py  classic query rewriting             *)
(* Python strings are TLA+ strings; None, a missing key and the empty      *)
(* string are all written "" (they are all falsy for `if value:`).         *)
(***************************************************************************)
EXTENDS Naturals, Integers, Sequences, FiniteSets, TLC

VARIABLES
    pc,               \* position of the running call
    args,             \* fetch_all: the arguments of the call
    used_sources,     \* fetch_all: sources the loop has still to visit
    results,          \* fetch_all: results
    fetch_stats,      \* fetch_all: fetch_stats
    calls,            \* history: every fetcher invocation and its outcome, in order
    filtered,         \* fetch_all: filtered
    retval,           \* fetch_all: the returned list
    caller,           \* who called deduplicate_metadata: "fetch_all" or "direct"
    fs,               \* the directory data/<project>
    source_dirs,      \* deduplicate_metadata: source directories still to scan
    source,           \* deduplicate_metadata: source directory being scanned
    json_files,       \* deduplicate_metadata: files of the current source still to read
    entries,          \* deduplicate_metadata: entries of the current file still to process
    unique_entries,   \* deduplicate_metadata: unique_entries
    seen_identifiers, \* deduplicate_metadata: seen_identifiers
    scanned,          \* history: every entry the inner loop has handled, in order
    deduped,          \* value returned by the last deduplicate_metadata call
    pass,             \* 1 during the first pass, 2 during the pass over its output
    firstOut,         \* history: value returned by the first of two passes
    firstScanned,     \* history: entries the first pass took, in order
    raised,           \* exception that escaped the running call ("" = none)
    fl_args,          \* filter_metadata_semantic: min_year and min_similarity
    fl_list,          \* filter_metadata_semantic: entries the loop has still to take
    fl_filtered,      \* filter_metadata_semantic: filtered
    fl_input,         \* history: metadata_list as passed in
    ft_list,          \* fetch_full_text_for_all: entries the loop has still to take
    ft_entry,         \* fetch_full_text_for_entry: entry (<<>> between two entries)
    ft_i,             \* fetch_full_text_for_entry: the strategy reached, 1..4
    ft_results,       \* fetch_full_text_for_all: results
    ft_input,         \* history: metadata_list as passed in
    ft_log,           \* history: download attempts and delays, in order
    ft_attempts,      \* history: attempts made for ft_entry, with their outcome
    ig_metadata,      \* ingest_project: metadata_list after sanitization
    rt_source,        \* retry: the source whose fetcher is being called
    rt_attempt,       \* retry: number of the attempt in progress (0 = no call)
    rt_log            \* history: attempts and waits of the fetcher calls, in order

faVars == <<args, used_sources, results, fetch_stats, calls, filtered, retval>>

vars == <<pc, args, used_sources, results, fetch_stats, calls, filtered, retval,
          caller, fs, source_dirs, source, json_files, entries, unique_entries,
          seen_identifiers, scanned, deduped, pass, firstOut, firstScanned, raised,
          fl_args, fl_list, fl_filtered, fl_input,
          ft_list, ft_entry, ft_i, ft_results, ft_input, ft_log,
          ft_attempts, ig_metadata, rt_source, rt_attempt, rt_log>>

flVars == <<fl_args, fl_list, fl_filtered, fl_input>>

ftVars == <<ft_list, ft_entry, ft_i, ft_results, ft_input, ft_log, ft_attempts>>

igVars == <<ig_metadata>>

rtVars == <<rt_source, rt_attempt, rt_log>>

\* neither filter_metadata_semantic nor fetch_full_text_for_all is running
\* on its own
IdleStages ==
    /\ fl_args = [min_year |-> <<>>, min_similarity |-> 0]
    /\ fl_list = <<>>
    /\ fl_filtered = <<>>
    /\ fl_input = <<>>
    /\ ft_list = <<>>
    /\ ft_entry = <<>>
    /\ ft_i = 0
    /\ ft_results = <<>>
    /\ ft_input = <<>>
    /\ ft_log = <<>>
    /\ ft_attempts = <<>>
    /\ ig_metadata = <<>>
    /\ rt_source = ""
    /\ rt_attempt = 0
    /\ rt_log = <<>>

(***************************************************************************)
(* Bounds.                                                                 *)
(***************************************************************************)
MaxRecords == 2      \* records persisted under the project before a scan

(***************************************************************************)
(* Python string helpers.                                                  *)
(***************************************************************************)
RECURSIVE str_replace(_, _, _)
\* str.replace(old, new): non-overlapping occurrences, left to right
str_replace(s, old, new) ==
    IF Len(s) < Len(old) THEN s
    ELSE IF SubSeq(s, 1, Len(old)) = old
         THEN new \o str_replace(SubSeq(s, Len(old) + 1, Len(s)), old, new)
         ELSE SubSeq(s, 1, 1) \o str_replace(SubSeq(s, 2, Len(s)), old, new)

\* str.endswith(suffix)
str_endswith(s, suffix) ==
    /\ Len(s) >= Len(suffix)
    /\ SubSeq(s, Len(s) - Len(suffix) + 1, Len(s)) = suffix

\* all orders in which a listing of the set S can come back (os.listdir
\* returns the names in arbitrary order)
Listings(S) ==
    {s \in [1..Cardinality(S) -> S] :
        \A i, j \in 1..Cardinality(S) : i # j => s[i] # s[j]}

BSeq(S, n) == UNION {[1..k -> S] : k \in 0..n}

UPPERCASE == "ABCDEFGHIJKLMNOPQRSTUVWXYZ"
LOWERCASE == "abcdefghijklmnopqrstuvwxyz"
DIGITS    == "0123456789"

char_in(c, chars) == \E i \in 1..Len(chars) : SubSeq(chars, i, i) = c

\* the character class \w of re (ASCII part)
is_word_char(c) == char_in(c, UPPERCASE \o LOWERCASE \o DIGITS \o "_")

\* str.isspace() for one character
is_space_char(c) == c \in {" ", "\t", "\n", "\r"}

lower_char(c) ==
    IF char_in(c, UPPERCASE)
    THEN LET i == CHOOSE k \in 1..Len(UPPERCASE) : SubSeq(UPPERCASE, k, k) = c
         IN  SubSeq(LOWERCASE, i, i)
    ELSE c

upper_char(c) ==
    IF char_in(c, LOWERCASE)
    THEN LET i == CHOOSE k \in 1..Len(LOWERCASE) : SubSeq(LOWERCASE, k, k) = c
         IN  SubSeq(UPPERCASE, i, i)
    ELSE c

RECURSIVE str_lower(_)
str_lower(s) ==
    IF s = "" THEN "" ELSE lower_char(SubSeq(s, 1, 1)) \o str_lower(SubSeq(s, 2, Len(s)))

RECURSIVE str_upper(_)
str_upper(s) ==
    IF s = "" THEN "" ELSE upper_char(SubSeq(s, 1, 1)) \o str_upper(SubSeq(s, 2, Len(s)))

RECURSIVE str_split(_, _)
\* str.split(): the maximal runs of non-whitespace of cur \o s (cur holds
\* the run being read)
str_split(s, cur) ==
    IF s = "" THEN (IF cur = "" THEN <<>> ELSE <<cur>>)
    ELSE LET c == SubSeq(s, 1, 1)
             rest == SubSeq(s, 2, Len(s))
         IN  IF is_space_char(c)
             THEN (IF cur = "" THEN <<>> ELSE <<cur>>) \o str_split(rest, "")
             ELSE str_split(rest, cur \o c)

RECURSIVE str_join(_, _)
\* sep.join(parts)
str_join(parts, sep) ==
    IF parts = <<>> THEN ""
    ELSE IF Len(parts) = 1 THEN parts[1]
         ELSE parts[1] \o sep \o str_join(Tail(parts), sep)

RECURSIVE str_lstrip(_)
str_lstrip(s) ==
    IF s # "" /\ is_space_char(SubSeq(s, 1, 1))
    THEN str_lstrip(SubSeq(s, 2, Len(s))) ELSE s

RECURSIVE str_rstrip(_)
str_rstrip(s) ==
    IF s # "" /\ is_space_char(SubSeq(s, Len(s), Len(s)))
    THEN str_rstrip(SubSeq(s, 1, Len(s) - 1)) ELSE s

\* str.strip()
str_strip(s) == str_rstrip(str_lstrip(s))

\* str.isspace(): non-empty and whitespace only
str_isspace(s) == s # "" /\ \A i \in 1..Len(s) : is_space_char(SubSeq(s, i, i))

RECURSIVE sub_nonword(_, _)
\* re.sub(r'\W+', ' ', s): every maximal run of non-word characters becomes
\* one space (inrun: the previous character belonged to such a run)
sub_nonword(s, inrun) ==
    IF s = "" THEN ""
    ELSE LET c == SubSeq(s, 1, 1)
             rest == SubSeq(s, 2, Len(s))
         IN  IF is_word_char(c) THEN c \o sub_nonword(rest, FALSE)
             ELSE (IF inrun THEN "" ELSE " ") \o sub_nonword(rest, TRUE)

(***************************************************************************)
(* Classic query processing (src/src/utils/query_processor.py).            *)
(***************************************************************************)
\* lines 30-32
normalize_query(query) ==
    str_join(str_split(sub_nonword(str_lower(query), FALSE), ""), " ")

Operators == {"AND", "OR", "NOT"}

\* the length of the match of "[^"_]*" at position i of s, 0 when none
quoted_match(s, i) ==
    IF SubSeq(s, i, i) # "\"" THEN 0
    ELSE LET stops == {k \in (i + 1)..Len(s) : SubSeq(s, k, k) \in {"\"", "_"}}
         IN  IF stops = {} THEN 0
             ELSE LET k == CHOOSE x \in stops : \A y \in stops : x <= y
                  IN  IF SubSeq(s, k, k) = "\"" THEN k - i + 1 ELSE 0

\* the length of the match of \bAND\b|\bOR\b|\bNOT\b (IGNORECASE) at
\* position i of s, 0 when none
operator_match(s, i) ==
    LET fits(n) == /\ i + n - 1 <= Len(s)
                   /\ str_upper(SubSeq(s, i, i + n - 1)) \in Operators
                   /\ (i = 1 \/ ~is_word_char(SubSeq(s, i - 1, i - 1)))
                   /\ (i + n - 1 = Len(s) \/ ~is_word_char(SubSeq(s, i + n, i + n)))
    IN  IF fits(3) THEN 3 ELSE IF fits(2) THEN 2 ELSE 0

delimiter_match(s, i) ==
    IF quoted_match(s, i) > 0 THEN quoted_match(s, i) ELSE operator_match(s, i)

RECURSIVE re_split(_, _, _)
\* line 52: re.split with a capturing group: text, delimiter, text, ...
re_split(s, i, cur) ==
    IF i > Len(s) THEN <<cur>>
    ELSE LET n == delimiter_match(s, i)
         IN  IF n > 0
             THEN <<cur, SubSeq(s, i, i + n - 1)>> \o re_split(s, i + n, "")
             ELSE re_split(s, i + 1, cur \o SubSeq(s, i, i))

\* line 60: re.fullmatch of the delimiter pattern on one part
is_delimiter(part) ==
    /\ part # ""
    /\ delimiter_match(part, 1) = Len(part)

\* lines 55-68: one part of the split
process_part(part) ==
    IF part = "" \/ str_isspace(part) THEN ""
    ELSE IF is_delimiter(part)
         THEN IF str_upper(part) \in Operators THEN str_upper(part) ELSE part
         ELSE normalize_query(part)

\* lines 37-71
advanced_classic_process(query) ==
    LET parts == re_split(query, 1, "")
        processed_parts == [k \in DOMAIN parts |-> process_part(parts[k])]
    IN  str_join(SelectSeq(processed_parts, LAMBDA x : x # ""), " ")

\* lines 73-83
web_query_processor(query) == str_strip(query)

\* lines 85-92
FETCHER_PROCESSORS ==
    [pubmed |-> "advanced_classic_process", arxiv |-> "advanced_classic_process",
     semanticscholar |-> "advanced_classic_process",
     websearch |-> "web_query_processor", blog |-> "web_query_processor",
     medium |-> "web_query_processor"]

\* line 110, 112: FETCHER_PROCESSORS.get(fetcher, normalize_query)(query)
apply_processor(fetcher, query) ==
    LET processor == IF fetcher \in DOMAIN FETCHER_PROCESSORS
                     THEN FETCHER_PROCESSORS[fetcher] ELSE "normalize_query"
    IN  IF processor = "advanced_classic_process"
        THEN advanced_classic_process(query)
        ELSE IF processor = "web_query_processor"
             THEN web_query_processor(query)
             ELSE normalize_query(query)

\* lines 94-114
process_query(query, fetcher, use_classic) ==
    IF use_classic THEN apply_processor(fetcher, query) ELSE query


(***************************************************************************)
(* Metadata records (src/src/utils/metadata_schema.py).  Only the fields   *)
(* the pipeline reads are kept.                                            *)
(***************************************************************************)
Rec(doi, pmid, paperId, pdf_url, id, link, title) ==
    [doi |-> doi, pmid |-> pmid, paperId |-> paperId, pdf_url |-> pdf_url,
     id |-> id, link |-> link, title |-> title,
     fetch_date |-> "2024-05-01T10:00:00"]

R_T1     == Rec("10.1/x", "111", "", "", "a1", "http://h/a", "T1")
R_T1dup  == Rec("10.1/x", "222", "s2", "http://h/z.pdf", "b1", "http://h/b", "T1-dup")
R_doiY   == Rec("10.1/y", "111", "", "", "a1", "http://h/a", "T1")
R_pmid   == Rec("", "123", "", "", "p9", "http://h/c", "P")
R_id     == Rec("", "", "", "", "123", "http://h/d", "I")
R_none   == Rec("", "", "", "", "", "", "N")
R_pdf    == Rec("", "", "", "http://h/p", "u1", "http://h/e", "U1")
R_link   == Rec("", "", "", "", "", "https://h/p", "U2")
R_slash  == Rec("", "", "", "", "", "https://h/p/", "U3")
R_doiHP  == Rec("h_p", "", "", "", "", "", "D")

\* a web search result whose link carries a query string: its id is the
\* link without protocol and with "/" replaced (web_search_fetcher.py 74)
R_web    == Rec("", "", "", "", "h_p?x=1", "https://h/p?x=1", "Q")

\* a record whose link is the number 5 and that has no other identifier
R_numlink == Rec("", "", "", "", "", "#5", "L")

\* records that share or differ in doi, pmid and id values
IdentityPool == {R_T1, R_T1dup, R_doiY, R_pmid, R_id, R_none}

\* records whose identifier is, or looks like, a URL
UrlPool == {R_pdf, R_link, R_slash, R_doiHP}

RecordPool == IdentityPool \cup UrlPool

(***************************************************************************)
(* The directory data/<project>.  fs.exists tells whether it exists;       *)
(* fs.nodes maps each name in it to a directory (with its files) or to a   *)
(* regular file.  A file holds JSON text: a list, a single object, some    *)
(* other JSON value, or text that does not parse.                          *)
(***************************************************************************)
JsonList(seq)  == [kind |-> "list", data |-> seq]
JsonDict(e)    == [kind |-> "dict", data |-> <<e>>]
JsonOther      == [kind |-> "other", data |-> <<>>]
Malformed      == [kind |-> "malformed", data |-> <<>>]
Dir(files)     == [isdir |-> TRUE, files |-> files]
RegularFile    == [isdir |-> FALSE, files |-> <<>>]
NoDataDir      == [exists |-> FALSE, nodes |-> <<>>]
DataDir(nodes) == [exists |-> TRUE, nodes |-> nodes]

\* os.makedirs(data/<project>/<d>, exist_ok=True)
makedirs(f, d) ==
    [exists |-> TRUE,
     nodes  |-> [n \in DOMAIN f.nodes \cup {d} |->
                    IF n \in DOMAIN f.nodes THEN f.nodes[n] ELSE Dir(<<>>)]]

\* open(data/<project>/<d>/<name>, "w") and json.dump(content)
write_json(f, d, name, content) ==
    [f EXCEPT !.nodes[d].files =
        [x \in DOMAIN f.nodes[d].files \cup {name} |->
            IF x = name THEN content ELSE f.nodes[d].files[x]]]

(***************************************************************************)
(* deduplicate_metadata: identifier resolution (deduplicator.py 74-83).    *)
(***************************************************************************)
\* variant of IdFields with pmid consulted before doi
\* a JSON number is written as the mark "#" followed by its digits; no
\* string of the model starts with the mark
is_str(value) == ~(Len(value) >= 1 /\ SubSeq(value, 1, 1) = "#")

\* `if value:` for a string (non-empty) or a number (non-zero)
truthy(value) == IF is_str(value) THEN value # "" ELSE value # "#0"

\* str(value)
py_str(value) == IF is_str(value) THEN value ELSE SubSeq(value, 2, Len(value))

\* an element of a list file that is a JSON string, not an object
NotAMapping == [json |-> "string"]

\* the entry has a get method (line 76)
is_mapping(entry) == "json" \notin DOMAIN entry

IdFields_pmid_first == <<"pmid", "doi", "paperId", "pdf_url", "id", "link">>

\* line 75
IdFields == <<"doi", "pmid", "paperId", "pdf_url", "id", "link">>

\* variant of normalize_url that strips the http scheme only
normalize_url_http_only(value) ==
    str_replace(str_replace(value, "http://", ""), "/", "_")

\* line 79: strip the scheme, replace "/" by "_"
normalize_url(value) ==
    str_replace(str_replace(str_replace(value, "http://", ""), "https://", ""),
                "/", "_")

RECURSIVE resolve_from(_, _)
\* lines 74-81: the first truthy field, in IdFields order, decides; "" = None
resolve_from(entry, i) ==
    IF i > Len(IdFields) THEN ""
    ELSE LET field == IdFields[i]
             value == entry[field]
         IN  IF truthy(value)
             THEN IF field \in {"link", "pdf_url"} THEN normalize_url(value)
                  ELSE value
             ELSE resolve_from(entry, i + 1)

resolve_identifier(entry) == resolve_from(entry, 1)

RECURSIVE replace_raises(_, _)
\* line 79 raises AttributeError when the deciding field is link or pdf_url
\* and its value has no replace method
replace_raises(entry, i) ==
    IF i > Len(IdFields) THEN FALSE
    ELSE LET field == IdFields[i]
             value == entry[field]
         IN  IF truthy(value)
             THEN field \in {"link", "pdf_url"} /\ ~is_str(value)
             ELSE replace_raises(entry, i + 1)

\* lines 76 and 79: handling the entry raises
entry_raises(entry) == ~is_mapping(entry) \/ replace_raises(entry, 1)

\* line 83: hash(str(identifier)); the 64-bit string hash is taken to be
\* collision-free
py_hash(identifier) == <<"hash", py_str(identifier)>>

\* variants of accept_entry with a plausible slip each
accept_entry_no_seen_check(entry, uniq, seen) ==
    LET identifier == resolve_identifier(entry)
    IN  IF identifier # ""
        THEN [unique |-> Append(uniq, entry),
              seen   |-> seen \cup {py_hash(identifier)}]
        ELSE [unique |-> uniq, seen |-> seen]

accept_entry_per_field(entry, uniq, seen) ==
    LET identifier == resolve_identifier(entry)
        field == IF \E i \in DOMAIN IdFields : entry[IdFields[i]] # ""
                 THEN IdFields[CHOOSE i \in DOMAIN IdFields :
                                  /\ entry[IdFields[i]] # ""
                                  /\ \A j \in 1..(i - 1) : entry[IdFields[j]] = ""]
                 ELSE ""
    IN  IF identifier # ""
        THEN IF py_hash(<<field, identifier>>) \notin seen
             THEN [unique |-> Append(uniq, entry),
                   seen   |-> seen \cup {py_hash(<<field, identifier>>)}]
             ELSE [unique |-> uniq, seen |-> seen]
        ELSE [unique |-> uniq, seen |-> seen]

accept_entry_keep_unidentified(entry, uniq, seen) ==
    LET identifier == resolve_identifier(entry)
    IN  IF identifier # ""
        THEN IF py_hash(identifier) \notin seen
             THEN [unique |-> Append(uniq, entry),
                   seen   |-> seen \cup {py_hash(identifier)}]
             ELSE [unique |-> uniq, seen |-> seen]
        ELSE [unique |-> Append(uniq, entry), seen |-> seen]

accept_entry_prepend(entry, uniq, seen) ==
    LET identifier == resolve_identifier(entry)
    IN  IF identifier # ""
        THEN IF py_hash(identifier) \notin seen
             THEN [unique |-> <<entry>> \o uniq,
                   seen   |-> seen \cup {py_hash(identifier)}]
             ELSE [unique |-> uniq, seen |-> seen]
        ELSE [unique |-> uniq, seen |-> seen]

\* lines 82-91: keep the entry when its identifier is new, drop it when the
\* identifier was seen or when there is none
accept_entry(entry, uniq, seen) ==
    LET identifier == resolve_identifier(entry)
    IN  IF identifier # ""
        THEN IF py_hash(identifier) \notin seen
             THEN [unique |-> Append(uniq, entry),
                   seen   |-> seen \cup {py_hash(identifier)}]
             ELSE [unique |-> uniq, seen |-> seen]
        ELSE [unique |-> uniq, seen |-> seen]

\* line 44: the sub-directories of data/<project> other than "deduplicated"
list_source_dirs(f) ==
    {d \in DOMAIN f.nodes : f.nodes[d].isdir /\ d # "deduplicated"}

\* line 53: the .json files of one source directory
list_json_files(f, d) ==
    {x \in DOMAIN f.nodes[d].files : str_endswith(x, ".json")}

\* fetch_all goes on behind the filter stage
AfterDedup_past_filter ==
    IF caller = "fetch_all" THEN "fa_filtered" ELSE "dd_returned"

(***************************************************************************)
(* deduplicate_metadata as a state machine (deduplicator.py 39-105).       *)
(*   dd_listdir  line 44        dd_source  top of the loop of line 50      *)
(*   dd_file     top of the loop of line 59                                *)
(*   dd_entry    top of the loop of line 73      dd_save  line 97          *)
(***************************************************************************)
\* where control goes when deduplicate_metadata returns
AfterDedup == IF caller = "fetch_all" THEN "fa_deduped" ELSE "dd_returned"

\* lines 39-48: list the source directories; os.listdir raises
\* FileNotFoundError when data/<project> does not exist, and no caller
\* catches it
dd_listdir ==
    /\ pc = "dd_listdir"
    /\ UNCHANGED <<flVars, ftVars, igVars, rtVars>>
    /\ IF ~fs.exists
       THEN /\ pc' = "raised"
            /\ raised' = "FileNotFoundError"
            /\ UNCHANGED <<source_dirs, deduped>>
       ELSE \E order \in Listings(list_source_dirs(fs)) :
               /\ source_dirs' = order
               /\ raised' = raised
               /\ IF order = <<>>
                  THEN pc' = AfterDedup /\ deduped' = <<>>
                  ELSE pc' = "dd_source" /\ deduped' = deduped
    /\ unique_entries' = <<>>
    /\ seen_identifiers' = {}
    /\ scanned' = <<>>
    /\ UNCHANGED faVars
    /\ UNCHANGED <<caller, fs, source, json_files, entries, pass, firstOut,
                   firstScanned>>

\* lines 50-57: take the next source directory and list its .json files
dd_source ==
    /\ pc = "dd_source"
    /\ UNCHANGED <<flVars, ftVars, igVars, rtVars>>
    /\ IF source_dirs = <<>>
       THEN /\ pc' = "dd_save"
            /\ UNCHANGED <<source_dirs, source, json_files>>
       ELSE \E order \in Listings(list_json_files(fs, Head(source_dirs))) :
               /\ source' = Head(source_dirs)
               /\ source_dirs' = Tail(source_dirs)
               /\ json_files' = order
               /\ pc' = IF order = <<>> THEN "dd_source" ELSE "dd_file"
    /\ UNCHANGED faVars
    /\ UNCHANGED <<caller, fs, entries, unique_entries, seen_identifiers,
                   scanned, deduped, pass, firstOut, firstScanned, raised>>

\* variant of skip_file that gives up the scan at the first unusable file
skip_file_abort == "dd_save"

\* lines 69-71 and 92-95: after a file that cannot be used the loop of
\* line 59 goes on with the next file
skip_file == "dd_file"

\* lines 59-71, 92-93: open the next file and parse it; text that is not
\* JSON, or JSON that is neither a list nor an object, skips the file
dd_file ==
    /\ pc = "dd_file"
    /\ UNCHANGED <<flVars, ftVars, igVars, rtVars>>
    /\ IF json_files = <<>>
       THEN /\ pc' = "dd_source"
            /\ UNCHANGED <<json_files, entries>>
       ELSE LET data == fs.nodes[source].files[Head(json_files)]
            IN  /\ json_files' = Tail(json_files)
                /\ IF data.kind \in {"list", "dict"}
                   THEN entries' = data.data /\ pc' = "dd_entry"
                   ELSE entries' = <<>> /\ pc' = skip_file
    /\ UNCHANGED faVars
    /\ UNCHANGED <<caller, fs, source_dirs, source, unique_entries,
                   seen_identifiers, scanned, deduped, pass, firstOut, firstScanned, raised>>

\* the loop goes on with the entry after the one that raised
rest_after_raise_next_entry(rest) == Tail(rest)

\* lines 94-95: the except clause is outside the loop of line 73, so the
\* entries after the one that raised are not handled
rest_after_raise(rest) == <<>>

\* lines 73-95: one iteration of the loop over the entries of the file
dd_entry ==
    /\ pc = "dd_entry"
    /\ UNCHANGED <<flVars, ftVars, igVars, rtVars>>
    /\ IF entries = <<>>
       THEN /\ pc' = "dd_file"
            /\ UNCHANGED <<entries, unique_entries, seen_identifiers, scanned>>
       ELSE IF entry_raises(Head(entries))
       THEN /\ entries' = rest_after_raise(entries)
            /\ pc' = "dd_entry"
            /\ UNCHANGED <<unique_entries, seen_identifiers, scanned>>
       ELSE LET r == accept_entry(Head(entries), unique_entries, seen_identifiers)
            IN  /\ entries' = Tail(entries)
                /\ unique_entries' = r.unique
                /\ seen_identifiers' = r.seen
                /\ scanned' = Append(scanned, Head(entries))
                /\ pc' = "dd_entry"
    /\ UNCHANGED faVars
    /\ UNCHANGED <<caller, fs, source_dirs, source, json_files, deduped,
                   pass, firstOut, firstScanned, raised>>

\* lines 97-105: write deduplicated/metadata.json and return the unique set
dd_save ==
    /\ pc = "dd_save"
    /\ UNCHANGED <<flVars, ftVars, igVars, rtVars>>
    /\ fs' = write_json(makedirs(fs, "deduplicated"), "deduplicated",
                        "metadata.json", JsonList(unique_entries))
    /\ deduped' = unique_entries
    /\ pc' = AfterDedup
    /\ UNCHANGED faVars
    /\ UNCHANGED <<caller, source_dirs, source, json_files, entries,
                   unique_entries, seen_identifiers, scanned, pass, firstOut, firstScanned, raised>>

(***************************************************************************)
(* Running the deduplicator on its own output: the unique set of the first *)
(* pass becomes the only source data of a second pass.                     *)
(***************************************************************************)
feed_back ==
    /\ pc = "dd_returned"
    /\ UNCHANGED <<flVars, ftVars, igVars, rtVars>>
    /\ pass = 1
    /\ pass' = 2
    /\ firstOut' = deduped
    /\ firstScanned' = scanned
    /\ fs' = DataDir("unique" :> Dir("metadata.json" :> JsonList(deduped)))
    /\ pc' = "dd_listdir"
    /\ UNCHANGED faVars
    /\ UNCHANGED <<caller, source_dirs, source, json_files, entries,
                   unique_entries, seen_identifiers, scanned, deduped, raised>>

\* a second call for the same project, the files left as they are
run_again ==
    /\ pc = "dd_returned"
    /\ UNCHANGED <<flVars, ftVars, igVars, rtVars>>
    /\ pass = 1
    /\ pass' = 3
    /\ firstOut' = deduped
    /\ firstScanned' = scanned
    /\ pc' = "dd_listdir"
    /\ UNCHANGED faVars
    /\ UNCHANGED <<caller, fs, source_dirs, source, json_files, entries,
                   unique_entries, seen_identifiers, scanned, deduped, raised>>

(***************************************************************************)
(* Projects found on disk by a direct call of deduplicate_metadata.        *)
(***************************************************************************)
\* the arguments of fetch_all, unused while deduplicate_metadata runs alone
NoArgs == [query |-> "", sources |-> <<>>, deduplicate |-> TRUE,
           query_mode |-> "classic", filter_metadata |-> TRUE,
           fetch_fulltext |-> TRUE]

\* recs[1..c1] in a/metadata.json, recs[c1+1..c2] in b/metadata.json, the
\* rest in b/one.json (a single object when it is one record)
FsLayout(recs, c1, c2) ==
    LET sa == SubSeq(recs, 1, c1)
        sb == SubSeq(recs, c1 + 1, c2)
        sc == SubSeq(recs, c2 + 1, Len(recs))
        fa == ("paper.pdf" :> Malformed) @@ ("metadata.json" :> JsonList(sa))
        fb1 == IF sb = <<>> THEN <<>> ELSE ("metadata.json" :> JsonList(sb))
        fb2 == IF sc = <<>> THEN <<>>
               ELSE ("one.json" :> IF Len(sc) = 1 THEN JsonDict(sc[1])
                                   ELSE JsonList(sc))
        na == IF sa = <<>> THEN <<>> ELSE ("a" :> Dir(fa))
        nb == IF sb = <<>> /\ sc = <<>> THEN <<>> ELSE ("b" :> Dir(fb1 @@ fb2))
    IN  DataDir(("README.md" :> RegularFile) @@ na @@ nb)

FsLayouts ==
    UNION {{FsLayout(recs, c[1], c[2]) :
                c \in {x \in (0..Len(recs)) \X (0..Len(recs)) : x[1] <= x[2]}} :
           recs \in BSeq(IdentityPool, MaxRecords)
                        \cup BSeq(UrlPool, MaxRecords)}

FsEdgeCases ==
    { NoDataDir,
      DataDir(<<>>),
      DataDir("deduplicated" :> Dir("metadata.json" :> JsonList(<<R_T1dup>>))),
      DataDir(("a" :> Dir("paper.pdf" :> Malformed))
              @@ ("b" :> Dir("metadata.json" :> JsonList(<<R_T1>>)))),
      DataDir(("a" :> Dir(("bad.json" :> Malformed)
                          @@ ("metadata.json" :> JsonList(<<R_T1, R_pmid>>))))
              @@ ("b" :> Dir("metadata.json" :> JsonList(<<R_T1dup>>)))),
      DataDir(("a" :> Dir(("num.json" :> JsonOther)
                          @@ ("metadata.json" :> JsonList(<<R_none, R_id>>))))
              @@ ("deduplicated" :> Dir("metadata.json" :> JsonList(<<R_doiY>>)))),
      DataDir(("a" :> Dir("metadata.json" :> JsonList(<<R_T1>>)))
              @@ ("b" :> Dir("metadata.json" :> JsonList(<<R_T1dup, R_doiY>>)))),
      DataDir(("a" :> Dir("metadata.json" :> JsonList(<<R_pmid, R_none, R_id>>)))
              @@ ("b" :> Dir("metadata.json" :> JsonList(<<R_pdf, R_link>>)))),
      DataDir(("a" :> Dir("metadata.json" :>
                              JsonList(<<R_T1, NotAMapping, R_pmid>>)))
              @@ ("b" :> Dir("metadata.json" :> JsonList(<<R_id>>)))),
      DataDir("a" :> Dir(("metadata.json" :>
                              JsonList(<<R_pmid, R_T1dup, R_numlink, R_T1>>))
                         @@ ("one.json" :> JsonDict(R_doiY)))) }

InitDedup ==
    /\ pc = "dd_listdir"
    /\ IdleStages
    /\ caller = "direct"
    /\ args = NoArgs
    /\ used_sources = <<>>
    /\ results = <<>>
    /\ fetch_stats = <<>>
    /\ calls = <<>>
    /\ filtered = <<>>
    /\ retval = <<>>
    /\ fs \in FsLayouts \cup FsEdgeCases
    /\ source_dirs = <<>>
    /\ source = ""
    /\ json_files = <<>>
    /\ entries = <<>>
    /\ unique_entries = <<>>
    /\ seen_identifiers = {}
    /\ scanned = <<>>
    /\ deduped = <<>>
    /\ pass = 1
    /\ firstOut = <<>>
    /\ firstScanned = <<>>
    /\ raised = ""

NextDedup ==
    \/ dd_listdir
    \/ dd_source
    \/ dd_file
    \/ dd_entry
    \/ dd_save
    \/ feed_back
    \/ run_again

SpecDedup == InitDedup /\ [][NextDedup]_vars

(***************************************************************************)
(* The source fetchers as fetch_all sees them (src/src/fetchers/*.py): a   *)
(* call raises or returns a list, and what it returned is also persisted   *)
(* under data/<project>/<source>/ by the fetcher itself.                   *)
(***************************************************************************)
\* data_fetcher.py 31-37, in key order
FETCHER_MAP == <<"pubmed", "websearch", "blog", "semanticscholar", "arxiv">>

Registered == {FETCHER_MAP[i] : i \in DOMAIN FETCHER_MAP}

W_page == Rec("", "", "", "", "h_p", "https://h/p", "W")

\* the lists a source can answer with
Catalog(src) ==
    IF src = "pubmed" THEN {<<>>, <<R_T1, R_pmid, R_doiY>>}
    ELSE IF src = "websearch" THEN {<<>>, <<W_page>>}
         ELSE {<<>>}

Raise(msg)      == [kind |-> "raise", error |-> msg, records |-> <<>>]
Return(records) == [kind |-> "return", error |-> "", records |-> records]

FetchOutcomes(src) == {Raise("timeout")} \cup {Return(l) : l \in Catalog(src)}

RECURSIVE write_each(_, _, _)
\* web_search_fetcher.py 93-96: one <id>.json per result
write_each(f, d, records) ==
    IF records = <<>> THEN f
    ELSE write_each(write_json(f, d, Head(records).id \o ".json",
                               JsonDict(Head(records))),
                    d, Tail(records))

\* what the call leaves on disk
\*   pubmed 39-55, 123-125; arxiv 63-69, 108-110; semanticscholar 63-69,
\*   110-112: nothing for an empty answer, else <source>/metadata.json
\*   websearch 63-69, 93-100: the same, plus one file per result
\*   blog 170-175, 203-205: the directory always, blog_<query>.json when
\*   there are articles
fetcher_persist(f, src, query, outcome) ==
    IF src = "blog"
    THEN IF outcome.records = <<>> THEN makedirs(f, "blog")
         ELSE write_json(makedirs(f, "blog"), "blog",
                         "blog_" \o str_replace(query, " ", "_") \o ".json",
                         JsonList(outcome.records))
    ELSE IF outcome.records = <<>> THEN f
         ELSE LET g == write_json(makedirs(f, src), src, "metadata.json",
                                  JsonList(outcome.records))
              IN  IF src = "websearch" THEN write_each(g, src, outcome.records)
                  ELSE g

(***************************************************************************)
(* fetch_all (src/src/data_fetcher.py 39-172).                             *)
(*   fa_fetch     top of the loop of line 88                               *)
(*   fa_deduped   line 139, deduplicate_metadata has returned              *)
(*   fa_filtered  line 164       fa_done  returned       raised  an        *)
(*   exception left the call                                               *)
(***************************************************************************)
\* what the LLM can answer (query_processor.py 150-155, stripped)
LLMRewrites == {"cats dogs"}

\* lines 96-108: the ways the query of one source gets rewritten
RewriteOutcomes(query_mode) ==
    IF query_mode = "llm"
    THEN {[llm |-> "ok", text |-> t] : t \in LLMRewrites}
         \cup {[llm |-> "raise", text |-> ""]}
    ELSE {[llm |-> "unused", text |-> ""]}

\* variant of fallback_query: the raw query is dispatched
fallback_query_raw(query, src) == query

\* line 104: the rewrite used when the LLM rewrite raised
fallback_query(query, src) == process_query(query, src, TRUE)

\* lines 96-108
processed_query(query, src, rw) ==
    IF rw.llm = "ok" THEN rw.text
    ELSE IF rw.llm = "raise" THEN fallback_query(query, src)
         ELSE process_query(query, src, TRUE)

\* variant of stat_of: the count is the running total of results
stat_of_running_total(outcome, res) ==
    IF outcome.kind = "raise"
    THEN [status |-> "failed", count |-> 0, error |-> outcome.error]
    ELSE [status |-> "success", count |-> Len(res) + Len(outcome.records),
          error |-> ""]

\* lines 113-120: the report entry of a fetcher call (res: results before
\* the call)
stat_of(outcome, res) ==
    IF outcome.kind = "raise"
    THEN [status |-> "failed", count |-> 0, error |-> outcome.error]
    ELSE [status |-> "success", count |-> Len(outcome.records), error |-> ""]

\* line 92
SkippedStat == [status |-> "skipped", count |-> 0, error |-> "Unknown source"]

\* variant of after_fetch: the exception of a fetcher leaves fetch_all
after_fetch_propagate(outcome) ==
    IF outcome.kind = "raise" THEN "raised" ELSE "fa_fetch"

\* lines 110-120: where control is after the try statement around the
\* fetcher call: the except clause swallows the exception
after_fetch(outcome) == "fa_fetch"

\* line 85
initial_sources(sources) ==
    IF sources = <<>> THEN FETCHER_MAP ELSE sources

\* lines 88-120: one iteration of the loop over used_sources
fa_fetch_source ==
    /\ pc = "fa_fetch"
    /\ UNCHANGED <<flVars, ftVars, igVars, rtVars>>
    /\ used_sources # <<>>
    /\ LET src == Head(used_sources)
       IN  IF src \notin Registered
           THEN /\ fetch_stats' = (src :> SkippedStat) @@ fetch_stats
                /\ pc' = "fa_fetch"
                /\ UNCHANGED <<results, calls, fs, raised>>
           ELSE \E rw \in RewriteOutcomes(args.query_mode),
                   outcome \in FetchOutcomes(src) :
                   LET q == processed_query(args.query, src, rw)
                   IN  /\ calls' = Append(calls,
                                     [source |-> src, query |-> q,
                                      llm |-> rw.llm, kind |-> outcome.kind,
                                      error |-> outcome.error,
                                      records |-> outcome.records])
                       /\ fs' = fetcher_persist(fs, src, q, outcome)
                       /\ results' = results \o outcome.records
                       /\ fetch_stats' =
                              (src :> stat_of(outcome, results)) @@ fetch_stats
                       /\ pc' = after_fetch(outcome)
                       /\ raised' = IF after_fetch(outcome) = "raised"
                                    THEN outcome.error ELSE raised
    /\ used_sources' = Tail(used_sources)
    /\ UNCHANGED <<args, filtered, retval, caller, source_dirs, source,
                   json_files, entries, unique_entries, seen_identifiers,
                   scanned, deduped, pass, firstOut, firstScanned>>

\* lines 122-138 and 170-172: the report, then either the call of
\* deduplicate_metadata or the return of the raw results
fa_report ==
    /\ pc = "fa_fetch"
    /\ UNCHANGED <<flVars, ftVars, igVars, rtVars>>
    /\ used_sources = <<>>
    /\ IF args.deduplicate
       THEN pc' = "dd_listdir" /\ retval' = retval
       ELSE pc' = "fa_done" /\ retval' = results
    /\ UNCHANGED <<args, used_sources, results, fetch_stats, calls, filtered,
                   caller, fs, source_dirs, source, json_files, entries,
                   unique_entries, seen_identifiers, scanned, deduped, pass,
                   firstOut, firstScanned, raised>>

(***************************************************************************)
(* The stages after deduplication, as far as fetch_all is concerned.       *)
(***************************************************************************)
\* the score the embedding model gives a record against the query, in
\* hundredths (metadata_filter.py 55)
SimilarityPct(e) ==
    IF e.title \in {"T1", "P", "U1", "W"} THEN 80
    ELSE IF e.title = "Eq" THEN 50
    ELSE IF e.title = "Zero" THEN 0
    ELSE IF e.title = "Neg" THEN 0 - 10
    ELSE 20

MinSimilarityPct == 50

\* entry.get(key, default)
dict_get(entry, key, default) ==
    IF key \in DOMAIN entry THEN entry[key] ELSE default

\* entry[key] = value
dict_set(entry, key, value) ==
    [x \in DOMAIN entry \cup {key} |-> IF x = key THEN value ELSE entry[x]]

digit_value(c) == (CHOOSE k \in 1..10 : SubSeq(DIGITS, k, k) = c) - 1

RECURSIVE str_to_int(_, _)
\* int(s) for a string of decimal digits, acc the value read so far
str_to_int(s, acc) ==
    IF s = "" THEN acc
    ELSE str_to_int(SubSeq(s, 2, Len(s)), acc * 10 + digit_value(SubSeq(s, 1, 1)))

\* metadata_filter.py 48: re.match(r"(\d{4})", pub).group(1), "" for no match
year_match(pub) ==
    IF Len(pub) >= 4 /\ \A i \in 1..4 : char_in(SubSeq(pub, i, i), DIGITS)
    THEN SubSeq(pub, 1, 4) ELSE ""

\* the truth value of an Optional[int]; None is written <<>>, n is <<n>>
truthy_int(opt) == opt # <<>> /\ opt[1] # 0

\* lines 46-50: the year filter
passes_year(entry, min_year) ==
    IF truthy_int(min_year)
    THEN LET ym == year_match(dict_get(entry, "published", ""))
         IN  ~(ym = "" \/ str_to_int(ym, 0) < min_year[1])
    ELSE TRUE

\* line 52
entry_text(entry) ==
    dict_get(entry, "title", "") \o " " \o dict_get(entry, "summary", "")

\* variant of has_text that forgets to strip
has_text_no_strip(entry) == entry_text(entry) # ""

\* line 53
has_text(entry) == str_strip(entry_text(entry)) # ""

\* variant of below_threshold that also rejects a score equal to the threshold
below_threshold_inclusive(score, min_similarity) == score <= min_similarity

\* line 56
below_threshold(score, min_similarity) == score < min_similarity

\* lines 45-59 for one entry whose text the model can embed: the entry with
\* its score when it is kept, nothing when it is not
filter_entry(entry, min_year, min_similarity) ==
    IF ~passes_year(entry, min_year) THEN <<>>
    ELSE IF ~has_text(entry) THEN <<>>
    ELSE IF below_threshold(SimilarityPct(entry), min_similarity) THEN <<>>
    ELSE <<dict_set(entry, "semantic_similarity", SimilarityPct(entry))>>

RECURSIVE filter_metadata_semantic(_, _, _)
\* metadata_filter.py 43-60, the embedding model working
filter_metadata_semantic(metadata_list, min_year, min_similarity) ==
    IF metadata_list = <<>> THEN <<>>
    ELSE filter_entry(Head(metadata_list), min_year, min_similarity)
            \o filter_metadata_semantic(Tail(metadata_list), min_year,
                                        min_similarity)

\* lines 140-162: semantic filtering and the saving of its result; a
\* failure of the embedding model is not caught here nor in the filter, the
\* IOError of the save is
fa_filter ==
    /\ pc = "fa_deduped"
    /\ UNCHANGED <<flVars, ftVars, igVars, rtVars>>
    /\ IF args.filter_metadata
       THEN \E embedding \in {"ok", "raise"} :
               IF embedding = "raise"
               THEN /\ pc' = "raised"
                    /\ raised' = "EmbeddingError"
                    /\ UNCHANGED <<filtered, fs>>
               ELSE /\ filtered' = filter_metadata_semantic(deduped, <<>>,
                                                            MinSimilarityPct)
                    /\ fs' = IF fs.exists /\ "deduplicated" \in DOMAIN fs.nodes
                             THEN write_json(fs, "deduplicated",
                                      "metadata_filtered.json",
                                      JsonList(filter_metadata_semantic(deduped, <<>>,
                                                   MinSimilarityPct)))
                             ELSE fs
                    /\ pc' = "fa_filtered"
                    /\ raised' = raised
       ELSE /\ filtered' = deduped
            /\ pc' = "fa_filtered"
            /\ UNCHANGED <<fs, raised>>
    /\ UNCHANGED <<args, used_sources, results, fetch_stats, calls, retval,
                   caller, source_dirs, source, json_files, entries,
                   unique_entries, seen_identifiers, scanned, deduped, pass,
                   firstOut, firstScanned>>

(***************************************************************************)
(* fetch_full_text_for_entry (full_text_fetcher.py 111-184).               *)
(***************************************************************************)
\* variant of Strategies with the open-access lookup tried first
Strategies_doi_first == <<"doi", "pdf_url", "pmid", "link">>

\* lines 136, 147, 160, 172: the field each strategy needs, in the order tried
Strategies == <<"pdf_url", "doi", "pmid", "link">>

\* one value for every strategy
FailedStatus_generic ==
    [pdf_url |-> "failed", doi |-> "failed", pmid |-> "failed", link |-> "failed"]

\* lines 144, 157, 169, 180
FailedStatus ==
    [pdf_url |-> "pdf_url_failed", doi |-> "unpaywall_failed",
     pmid |-> "pmc_failed", link |-> "html_failed"]

\* lines 140, 152, 165, 176
FulltextType == [pdf_url |-> "pdf", doi |-> "pdf", pmid |-> "pdf", link |-> "html"]

\* how a download can fail: download_pdf and fetch_html return False on an
\* exception of requests.get (lines 50-52, 107-109), on a response that is
\* not ok and on a content-type that does not fit (lines 42, 99);
\* fetch_unpaywall_pdf also returns None when the lookup names no PDF
\* (lines 74-78)
FailureKinds(strategy) ==
    {"network_error", "timeout", "http_error", "wrong_type"}
        \cup (IF strategy = "doi" THEN {"no_oa_location"} ELSE {})

\* line 127: str(hash(str(entry))), a digit string that depends on the entry
entry_hash(entry) == "hash-" \o dict_get(entry, "title", "")

\* lines 127-128
safe_id(entry) ==
    LET entry_id == IF dict_get(entry, "id", "") # "" THEN entry["id"]
                    ELSE IF dict_get(entry, "link", "") # "" THEN entry["link"]
                    ELSE entry_hash(entry)
    IN  str_replace(str_replace(entry_id, "/", "_"), ":", "_")

\* lines 129-130: the file a strategy downloads to, and its path
fulltext_file(entry, strategy) == safe_id(entry) \o "." \o FulltextType[strategy]

fulltext_path(entry, strategy) == "fulltext/" \o fulltext_file(entry, strategy)

\* lines 43-44 and 100-101: the downloaded document
Download == [kind |-> "download", data |-> <<>>]

RECURSIVE save_downloads(_, _)
\* the files the successful downloads of the returned entries left under
\* fulltext/
save_downloads(f, out) ==
    IF out = <<>> THEN f
    ELSE LET e == Head(out)
             g == IF e.fulltext_status = "success"
                  THEN write_json(f, "fulltext",
                           safe_id(e) \o "." \o e.fulltext_type, Download)
                  ELSE f
         IN  save_downloads(g, Tail(out))

\* the URL the open-access lookup returns (line 74)
OA_URL == "https://oa.example/x.pdf"

\* line 133
ft_init(entry) == dict_set(entry, "full_text", "")

\* lines 138-142, 150-155, 163-167, 174-178: a strategy succeeded
ft_success(entry, strategy, text) ==
    LET e1 == dict_set(entry, "fulltext_path", fulltext_path(entry, strategy))
        e2 == dict_set(e1, "fulltext_status", "success")
        e3 == dict_set(e2, "fulltext_type", FulltextType[strategy])
        e4 == IF strategy = "doi" THEN dict_set(e3, "fulltext_pdf_url", OA_URL)
              ELSE e3
    IN  dict_set(e4, "full_text", text)

\* a failure that leaves a key of its own
ft_failure_with_error_key(entry, strategy) ==
    dict_set(dict_set(entry, "fulltext_status", FailedStatus[strategy]),
             "fulltext_error", strategy)

\* lines 144, 157, 169, 180: a strategy failed
ft_failure(entry, strategy) ==
    dict_set(entry, "fulltext_status", FailedStatus[strategy])

\* the reason of the last failure is kept when there is one
ft_not_found_mark_keep_reason(entry) ==
    IF "fulltext_status" \in DOMAIN entry THEN entry
    ELSE dict_set(entry, "fulltext_status", "not_found")

\* line 183
ft_not_found_mark(entry) == dict_set(entry, "fulltext_status", "not_found")

\* only the entries for which a text was found are kept
results_append_found_only(results_list, result) ==
    IF result.fulltext_status = "not_found" THEN results_list
    ELSE Append(results_list, result)

\* line 207: results.append(result)
results_append(results_list, result) == Append(results_list, result)

\* no pause after an entry
sleep_never(log) == log

\* line 208: time.sleep(delay), recorded in the log of the run
sleep_after_entry(log) == Append(log, <<"sleep", "", "">>)

\* lines 136, 147, 160, 172: entry.get(field) is truthy
applicable(entry, strategy) == dict_get(entry, strategy, "") # ""

RECURSIVE full_text_chain(_, _, _)
\* lines 135-184 from strategy i on, every download succeeding (net = "up")
\* or failing (net = "down")
full_text_chain(entry, i, net) ==
    IF i > Len(Strategies) THEN ft_not_found_mark(entry)
    ELSE IF ~applicable(entry, Strategies[i])
         THEN full_text_chain(entry, i + 1, net)
         ELSE IF net = "up" THEN ft_success(entry, Strategies[i], "text")
              ELSE full_text_chain(ft_failure(entry, Strategies[i]), i + 1, net)

\* full_text_fetcher.py 111-184 for one entry
fetch_full_text_for_entry(entry, net) == full_text_chain(ft_init(entry), 1, net)

\* lines 164-169 and full_text_fetcher.py 202-214: the full-text stage; the
\* open of deduplicated/metadata_with_fulltext.json raises when the
\* directory is missing, and nothing catches it
fa_fulltext ==
    /\ pc = "fa_filtered"
    /\ UNCHANGED <<flVars, ftVars, igVars, rtVars>>
    /\ IF args.fetch_fulltext
       THEN \E net \in {"up", "down"} :
               LET out == [k \in DOMAIN filtered |->
                              fetch_full_text_for_entry(filtered[k], net)]
                   g == save_downloads(makedirs(fs, "fulltext"), out)
               IN  IF "deduplicated" \in DOMAIN g.nodes
                   THEN /\ fs' = write_json(g, "deduplicated",
                                     "metadata_with_fulltext.json", JsonList(out))
                        /\ retval' = out
                        /\ pc' = "fa_done"
                        /\ raised' = raised
                   ELSE /\ fs' = g
                        /\ retval' = retval
                        /\ pc' = "raised"
                        /\ raised' = "FileNotFoundError"
       ELSE /\ retval' = filtered
            /\ pc' = "fa_done"
            /\ UNCHANGED <<fs, raised>>
    /\ UNCHANGED <<args, used_sources, results, fetch_stats, calls, filtered,
                   caller, source_dirs, source, json_files, entries,
                   unique_entries, seen_identifiers, scanned, deduped, pass,
                   firstOut, firstScanned>>

(***************************************************************************)
(* Calls of fetch_all.                                                     *)
(***************************************************************************)
MaxSources == 2      \* length of the requested source list

QuerySet == {" Cats AND dogs? ", "\"New York\" or Flu-like"}

RequestNames == {"pubmed", "websearch", "unknown"}

SourceLists ==
    (BSeq(RequestNames, MaxSources) \ {<<>>})
        \cup {<<"websearch", "unknown", "pubmed">>, <<"pubmed", "pubmed">>}

\* the requested list and the query mode; sources left out (None, written
\* <<>>) goes with the default query_mode
Requests ==
    (SourceLists \X {"classic", "llm"}) \cup {<< <<>>, "classic" >>}

\* what an earlier run for the project left: a pubmed answer and its
\* deduplicated copy
StaleRun ==
    DataDir(("pubmed" :> Dir("metadata.json" :> JsonList(<<R_T1dup>>)))
            @@ ("deduplicated" :> Dir("metadata.json" :> JsonList(<<R_T1dup>>))))

Flags == {<<FALSE, TRUE, TRUE>>, <<TRUE, FALSE, FALSE>>, <<TRUE, TRUE, FALSE>>,
          <<TRUE, FALSE, TRUE>>, <<TRUE, TRUE, TRUE>>}

Init ==
    /\ pc = "fa_fetch"
    /\ IdleStages
    /\ caller = "fetch_all"
    /\ \E q \in QuerySet, rq \in Requests, fl \in Flags :
          args = [query |-> q, sources |-> rq[1], deduplicate |-> fl[1],
                  query_mode |-> rq[2], filter_metadata |-> fl[2],
                  fetch_fulltext |-> fl[3]]
    /\ used_sources = initial_sources(args.sources)
    /\ results = <<>>
    /\ fetch_stats = <<>>
    /\ calls = <<>>
    /\ filtered = <<>>
    /\ retval = <<>>
    /\ fs \in {NoDataDir, DataDir(<<>>), StaleRun}
    /\ source_dirs = <<>>
    /\ source = ""
    /\ json_files = <<>>
    /\ entries = <<>>
    /\ unique_entries = <<>>
    /\ seen_identifiers = {}
    /\ scanned = <<>>
    /\ deduped = <<>>
    /\ pass = 1
    /\ firstOut = <<>>
    /\ firstScanned = <<>>
    /\ raised = ""

Next ==
    \/ fa_fetch_source
    \/ fa_report
    \/ dd_listdir
    \/ dd_source
    \/ dd_file
    \/ dd_entry
    \/ dd_save
    \/ fa_filter
    \/ fa_fulltext

Spec == Init /\ [][Next]_vars

(***************************************************************************)
(* filter_metadata_semantic called on its own (metadata_filter.py 13-60).  *)
(*   fl_start   lines 40-43        fl_entry   one iteration of line 44      *)
(*   fl_return  line 60                                                     *)
(***************************************************************************)
MaxEntries == 2      \* length of the list handed to a stage

\* the fields of a record the filter reads, with two it must carry along
FRec(id, title, summary, published) ==
    [id |-> id, title |-> title, summary |-> summary, published |-> published,
     fetch_date |-> "2024-05-01T10:00:00"]

F_hit     == FRec("f1", "T1", "about cats", "2021-03-01")
F_eq      == FRec("f2", "Eq", "s", "2020")
F_low     == FRec("f3", "N", "s", "2019-12-31")
F_neg     == FRec("f4", "Neg", "s", "2022-01-01")
F_zero    == FRec("f5", "Zero", "", "Unknown")
F_blank   == FRec("f6", "", "", "2023")
F_space   == FRec("f7", " ", "\t", "2021")
F_noyear  == FRec("f8", "P", "sum", "")
F_badyear == FRec("f9", "U1", "x", "202x-01")

FilterPool == {F_hit, F_eq, F_low, F_neg, F_zero, F_blank, F_space, F_noyear,
               F_badyear}

\* min_year: None, 0 and a year; min_similarity in hundredths
MinYears == {<<>>, <<0>>, <<2020>>}

MinSimilarities == {0 - 100, 0, 50}

\* the variables of fetch_all and deduplicate_metadata while a later stage
\* is called on its own
IdlePipeline ==
    /\ caller = "direct"
    /\ args = NoArgs
    /\ used_sources = <<>>
    /\ results = <<>>
    /\ fetch_stats = <<>>
    /\ calls = <<>>
    /\ filtered = <<>>
    /\ retval = <<>>
    /\ fs = DataDir(<<>>)
    /\ source_dirs = <<>>
    /\ source = ""
    /\ json_files = <<>>
    /\ entries = <<>>
    /\ unique_entries = <<>>
    /\ seen_identifiers = {}
    /\ scanned = <<>>
    /\ deduped = <<>>
    /\ pass = 1
    /\ firstOut = <<>>
    /\ firstScanned = <<>>
    /\ raised = ""

pipelineVars ==
    <<args, used_sources, results, fetch_stats, calls, filtered, retval,
      caller, fs, source_dirs, source, json_files, entries, unique_entries,
      seen_identifiers, scanned, deduped, pass, firstOut, firstScanned>>

\* lines 40-43: load the model and embed the query; nothing catches a failure
fl_start ==
    /\ pc = "fl_start"
    /\ \E model \in {"ok", "raise"} :
          IF model = "raise"
          THEN pc' = "raised" /\ raised' = "ModelLoadError"
          ELSE pc' = "fl_loop" /\ raised' = raised
    /\ fl_filtered' = <<>>
    /\ UNCHANGED <<fl_args, fl_list, fl_input>>
    /\ UNCHANGED <<pipelineVars, ftVars, igVars, rtVars>>

\* lines 44-59: one iteration; the entry reaches model.encode of line 55 only
\* after the year filter and the text test, and a failure there is not caught
fl_entry ==
    /\ pc = "fl_loop"
    /\ fl_list # <<>>
    /\ LET entry == Head(fl_list)
       IN  IF passes_year(entry, fl_args.min_year) /\ has_text(entry)
           THEN \E embedding \in {"ok", "raise"} :
                   IF embedding = "raise"
                   THEN /\ pc' = "raised"
                        /\ raised' = "EmbeddingError"
                        /\ UNCHANGED <<fl_list, fl_filtered>>
                   ELSE /\ fl_filtered' = fl_filtered \o
                              filter_entry(entry, fl_args.min_year,
                                           fl_args.min_similarity)
                        /\ fl_list' = Tail(fl_list)
                        /\ UNCHANGED <<pc, raised>>
           ELSE /\ fl_list' = Tail(fl_list)
                /\ UNCHANGED <<pc, raised, fl_filtered>>
    /\ UNCHANGED <<fl_args, fl_input>>
    /\ UNCHANGED <<pipelineVars, ftVars, igVars, rtVars>>

\* line 60
fl_return ==
    /\ pc = "fl_loop"
    /\ fl_list = <<>>
    /\ pc' = "fl_returned"
    /\ UNCHANGED <<raised, flVars, pipelineVars, ftVars, igVars, rtVars>>

InitFilter ==
    /\ pc = "fl_start"
    /\ IdlePipeline
    /\ fl_args \in [min_year : MinYears, min_similarity : MinSimilarities]
    /\ fl_input \in BSeq(FilterPool, MaxEntries)
    /\ fl_list = fl_input
    /\ fl_filtered = <<>>
    /\ ft_list = <<>>
    /\ ft_entry = <<>>
    /\ ft_i = 0
    /\ ft_results = <<>>
    /\ ft_input = <<>>
    /\ ft_log = <<>>
    /\ ft_attempts = <<>>
    /\ ig_metadata = <<>>
    /\ rt_source = ""
    /\ rt_attempt = 0
    /\ rt_log = <<>>

NextFilter ==
    \/ fl_start
    \/ fl_entry
    \/ fl_return

SpecFilter == InitFilter /\ [][NextFilter]_vars

(***************************************************************************)
(* fetch_full_text_for_all called on its own (full_text_fetcher.py         *)
(* 186-214), fetch_full_text_for_entry one strategy at a time.             *)
(*   ft_begin      lines 202-204    ft_take    lines 205-206, 127-133       *)
(*   ft_try        one of the blocks of lines 136, 147, 160, 172            *)
(*   ft_not_found  lines 183-184    ft_append  lines 207-208                *)
(*   ft_save       lines 210-214                                            *)
(***************************************************************************)
FulltextPool == {R_T1, R_pdf, R_pmid, R_link, R_none, R_web}

\* the lists handed to fetch_full_text_for_all; the record with all four
\* fields comes alone
FulltextInputs == BSeq(FulltextPool, MaxEntries) \cup {<<R_T1dup>>}

\* the variables of the pipeline other than fs
pipelineNoFs ==
    <<args, used_sources, results, fetch_stats, calls, filtered, retval,
      caller, source_dirs, source, json_files, entries, unique_entries,
      seen_identifiers, scanned, deduped, pass, firstOut, firstScanned>>

\* lines 202-204
ft_begin ==
    /\ pc = "ft_begin"
    /\ fs' = makedirs(fs, "fulltext")
    /\ ft_results' = <<>>
    /\ pc' = "ft_loop"
    /\ UNCHANGED <<ft_list, ft_entry, ft_i, ft_input, ft_log, ft_attempts>>
    /\ UNCHANGED <<raised, pipelineNoFs, flVars, igVars, rtVars>>

\* lines 205-206 and 127-133: the loop takes the next entry and
\* fetch_full_text_for_entry clears its full_text
ft_take ==
    /\ pc = "ft_loop"
    /\ ft_list # <<>>
    /\ ft_entry' = ft_init(Head(ft_list))
    /\ ft_list' = Tail(ft_list)
    /\ ft_i' = 1
    /\ pc' = "ft_chain"
    /\ UNCHANGED <<ft_results, ft_input, ft_log, ft_attempts>>
    /\ UNCHANGED <<raised, fs, pipelineNoFs, flVars, igVars, rtVars>>

\* lines 136-180: the block of strategy ft_i; it is skipped when the field
\* is empty, returns the entry when the download succeeds and falls through
\* to the next block when it fails
ft_try ==
    /\ pc = "ft_chain"
    /\ ft_i <= Len(Strategies)
    /\ LET strategy == Strategies[ft_i]
       IN  IF ~applicable(ft_entry, strategy)
           THEN /\ ft_i' = ft_i + 1
                /\ UNCHANGED <<pc, fs, ft_entry, ft_log, ft_attempts>>
           ELSE \E outcome \in {"ok"} \cup FailureKinds(strategy) :
                   /\ ft_attempts' = Append(ft_attempts, <<strategy, outcome>>)
                   /\ IF outcome = "ok"
                      THEN \E text \in {"text", ""} :
                              /\ ft_entry' = ft_success(ft_entry, strategy, text)
                              /\ fs' = write_json(fs, "fulltext",
                                          fulltext_file(ft_entry, strategy),
                                          Download)
                              /\ ft_log' = Append(ft_log,
                                              <<"attempt", strategy, "ok">>)
                              /\ pc' = "ft_append"
                              /\ ft_i' = ft_i
                      ELSE /\ ft_entry' = ft_failure(ft_entry, strategy)
                           /\ ft_log' = Append(ft_log,
                                           <<"attempt", strategy, "failed">>)
                           /\ ft_i' = ft_i + 1
                           /\ UNCHANGED <<pc, fs>>
    /\ UNCHANGED <<ft_list, ft_results, ft_input>>
    /\ UNCHANGED <<raised, pipelineNoFs, flVars, igVars, rtVars>>

\* lines 182-184
ft_not_found ==
    /\ pc = "ft_chain"
    /\ ft_i > Len(Strategies)
    /\ ft_entry' = ft_not_found_mark(ft_entry)
    /\ pc' = "ft_append"
    /\ UNCHANGED <<ft_list, ft_i, ft_results, ft_input, ft_log, ft_attempts>>
    /\ UNCHANGED <<raised, fs, pipelineNoFs, flVars, igVars, rtVars>>

\* lines 207-208: results.append(result); time.sleep(delay)
ft_append ==
    /\ pc = "ft_append"
    /\ ft_results' = results_append(ft_results, ft_entry)
    /\ ft_log' = sleep_after_entry(ft_log)
    /\ ft_entry' = <<>>
    /\ ft_i' = 0
    /\ ft_attempts' = <<>>
    /\ pc' = "ft_loop"
    /\ UNCHANGED <<ft_list, ft_input>>
    /\ UNCHANGED <<raised, fs, pipelineNoFs, flVars, igVars, rtVars>>

\* lines 210-214: the open for writing raises when deduplicated/ is missing
ft_save ==
    /\ pc = "ft_loop"
    /\ ft_list = <<>>
    /\ IF "deduplicated" \in DOMAIN fs.nodes
       THEN /\ fs' = write_json(fs, "deduplicated",
                        "metadata_with_fulltext.json", JsonList(ft_results))
            /\ pc' = "ft_returned"
            /\ raised' = raised
       ELSE /\ pc' = "raised"
            /\ raised' = "FileNotFoundError"
            /\ fs' = fs
    /\ UNCHANGED <<pipelineNoFs, flVars, ftVars, igVars, rtVars>>

(***************************************************************************)
(* ingest_project (src/src/ingest.py 96-142) up to the sanitization of the *)
(* list that fetch_full_text_for_all saved.                                *)
(***************************************************************************)
\* the characters the pattern [^a-zA-Z0-9_.-] of line 44 leaves alone
is_id_char(c) == char_in(c, LOWERCASE \o UPPERCASE \o DIGITS \o "_.-")

\* only "/" and ":" are replaced
sub_non_id_slashes_only(s) == str_replace(str_replace(s, "/", "_"), ":", "_")

RECURSIVE sub_non_id(_)
\* line 44: re.sub(r'[^a-zA-Z0-9_.-]', '_', s)
sub_non_id(s) ==
    IF s = "" THEN ""
    ELSE LET c == SubSeq(s, 1, 1)
         IN  (IF is_id_char(c) THEN c ELSE "_") \o sub_non_id(SubSeq(s, 2, Len(s)))

\* str.isprintable() for one character
is_printable_char(c) == c \notin {"\t", "\n", "\r"}

RECURSIVE printable_only(_)
\* line 59: ''.join(c for c in s if c.isprintable())
printable_only(s) ==
    IF s = "" THEN ""
    ELSE LET c == SubSeq(s, 1, 1)
         IN  (IF is_printable_char(c) THEN c ELSE "") \o printable_only(SubSeq(s, 2, Len(s)))

\* line 39: entry.get('id') or entry.get('link')
entry_id_of(entry) ==
    IF dict_get(entry, "id", "") # "" THEN entry["id"]
    ELSE dict_get(entry, "link", "")

\* lines 40-42: sanitize_metadata returns None
is_discarded(entry) == entry_id_of(entry) = ""

\* lines 43-61: sanitize_metadata for an entry it keeps; the records of the
\* model carry no authors key, so line 55 sets the empty list
sanitize_metadata(entry) ==
    LET e1 == dict_set(entry, "id", sub_non_id(entry_id_of(entry)))
        e2 == IF dict_get(e1, "title", "") = ""
              THEN dict_set(e1, "title", "No Title Provided") ELSE e1
        e3 == IF "authors" \in DOMAIN e2 THEN e2 ELSE dict_set(e2, "authors", <<>>)
        e4 == dict_set(e3, "title", printable_only(e3["title"]))
    IN  IF "summary" \in DOMAIN e4
        THEN dict_set(e4, "summary", printable_only(e4["summary"]))
        ELSE e4

RECURSIVE sanitize_all(_)
\* line 140: the entries sanitize_metadata did not discard, sanitized
sanitize_all(original_metadata) ==
    IF original_metadata = <<>> THEN <<>>
    ELSE (IF is_discarded(Head(original_metadata)) THEN <<>>
          ELSE <<sanitize_metadata(Head(original_metadata))>>)
         \o sanitize_all(Tail(original_metadata))

\* lines 131-142: ingest_project loads metadata_with_fulltext.json and
\* sanitizes it, or returns when the file is missing
ig_sanitize ==
    /\ pc \in {"ft_returned", "raised"}
    /\ IF /\ "deduplicated" \in DOMAIN fs.nodes
          /\ "metadata_with_fulltext.json" \in DOMAIN fs.nodes["deduplicated"].files
       THEN /\ ig_metadata' = sanitize_all(
                   fs.nodes["deduplicated"].files["metadata_with_fulltext.json"].data)
            /\ pc' = "ig_sanitized"
       ELSE /\ ig_metadata' = ig_metadata
            /\ pc' = "ig_no_metadata"
    /\ UNCHANGED <<raised, fs, pipelineNoFs, flVars, ftVars, rtVars>>

InitFulltext ==
    /\ pc = "ft_begin"
    /\ caller = "direct"
    /\ args = NoArgs
    /\ used_sources = <<>>
    /\ results = <<>>
    /\ fetch_stats = <<>>
    /\ calls = <<>>
    /\ filtered = <<>>
    /\ retval = <<>>
    /\ fs \in {DataDir("deduplicated" :> Dir("metadata.json" :> JsonList(<<>>))),
               DataDir(<<>>), NoDataDir}
    /\ source_dirs = <<>>
    /\ source = ""
    /\ json_files = <<>>
    /\ entries = <<>>
    /\ unique_entries = <<>>
    /\ seen_identifiers = {}
    /\ scanned = <<>>
    /\ deduped = <<>>
    /\ pass = 1
    /\ firstOut = <<>>
    /\ firstScanned = <<>>
    /\ raised = ""
    /\ fl_args = [min_year |-> <<>>, min_similarity |-> 0]
    /\ fl_list = <<>>
    /\ fl_filtered = <<>>
    /\ fl_input = <<>>
    /\ ft_input \in FulltextInputs
    /\ ft_list = ft_input
    /\ ft_entry = <<>>
    /\ ft_i = 0
    /\ ft_results = <<>>
    /\ ft_log = <<>>
    /\ ft_attempts = <<>>
    /\ ig_metadata = <<>>
    /\ rt_source = ""
    /\ rt_attempt = 0
    /\ rt_log = <<>>

NextFulltext ==
    \/ ft_begin
    \/ ft_take
    \/ ft_try
    \/ ft_not_found
    \/ ft_append
    \/ ft_save
    \/ ig_sanitize

SpecFulltext == InitFulltext /\ [][NextFulltext]_vars

(***************************************************************************)
(* The fetch loop of fetch_all (data_fetcher.py 88-120) with the calls of  *)
(* the fetchers one attempt at a time: fetch_pubmed, fetch_websearch,      *)
(* fetch_semantic_scholar and fetch_arxiv are wrapped in                   *)
(* @retry(stop=stop_after_attempt(3), wait=wait_fixed(2)); the blog        *)
(* fetcher is a plain call.                                                *)
(*   rt_next   lines 88-108, up to the call of line 112                    *)
(*   rt_body   one run of the body of the fetcher, then lines 113-120      *)
(*   rt_wait   the wait between two attempts     rt_end  the loop is over  *)
(***************************************************************************)
\* the fetchers that carry the decorator (pubmed_fetcher.py 17,
\* web_search_fetcher.py 26, semantic_scholar_fetcher.py 24,
\* arxiv_fetcher.py 24)
RETRY_WRAPPED == {"pubmed", "websearch", "semanticscholar", "arxiv"}

\* stop_after_attempt(3)
StopAfterAttempt == 3

\* wait_fixed(2): seconds between two attempts
WaitFixed == 2

\* one attempt more is allowed
should_retry_four(src, attempt) ==
    src \in RETRY_WRAPPED /\ attempt < 4

\* the decorator runs the body again after a raise unless the attempt was
\* the last one allowed; an undecorated fetcher is never run again
should_retry(src, attempt) ==
    src \in RETRY_WRAPPED /\ attempt < StopAfterAttempt

\* what the caller of a fetcher sees when the last attempt raised: the
\* decorator (no reraise) raises RetryError, a plain call the error itself
call_outcome(src, outcome) ==
    IF outcome.kind = "raise" /\ src \in RETRY_WRAPPED
    THEN Raise("RetryError") ELSE outcome

\* lines 107-108: the classic rewrite of each query for each fetcher
classic_query ==
    [q \in QuerySet, src \in Registered |-> process_query(q, src, TRUE)]

\* the source lists of the calls whose attempts are followed
RetryLists == BSeq({"pubmed", "blog", "unknown"}, MaxSources) \ {<<>>}

\* the variables of the stages after the fetch loop
afterLoopVars ==
    <<filtered, retval, caller, source_dirs, source, json_files, entries,
      unique_entries, seen_identifiers, scanned, deduped, pass, firstOut,
      firstScanned, raised>>

\* lines 88-112: the loop takes the next source; an unknown name is
\* recorded skipped, for a registered one the fetcher is called
rt_next ==
    /\ pc = "rt_loop"
    /\ used_sources # <<>>
    /\ LET src == Head(used_sources)
       IN  IF src \notin Registered
           THEN /\ fetch_stats' = (src :> SkippedStat) @@ fetch_stats
                /\ UNCHANGED <<pc, rt_source, rt_attempt, rt_log>>
           ELSE /\ rt_source' = src
                /\ rt_attempt' = 1
                /\ rt_log' = Append(rt_log, [source |-> src, events |-> <<>>])
                /\ pc' = "rt_body"
                /\ UNCHANGED fetch_stats
    /\ used_sources' = Tail(used_sources)
    /\ UNCHANGED <<args, results, calls, fs, afterLoopVars, flVars, ftVars, igVars>>

\* one run of the body of the fetcher: it returns a list, and line 113-117
\* record the success, or it raises, and then either the decorator waits
\* for the next attempt or the exception reaches lines 118-120
rt_body ==
    /\ pc = "rt_body"
    /\ \E outcome \in FetchOutcomes(rt_source) :
          LET q == classic_query[args.query, rt_source]
              seen == call_outcome(rt_source, outcome)
              logged == [rt_log EXCEPT ![Len(rt_log)].events =
                            Append(@, <<outcome.kind, 0>>)]
          IN  /\ rt_log' = logged
              /\ IF outcome.kind = "raise" /\ should_retry(rt_source, rt_attempt)
                 THEN /\ pc' = "rt_wait"
                      /\ UNCHANGED <<results, fetch_stats, calls, fs,
                                     rt_source, rt_attempt>>
                 ELSE /\ calls' = Append(calls,
                                    [source |-> rt_source, query |-> q,
                                     llm |-> "unused", kind |-> seen.kind,
                                     error |-> seen.error,
                                     records |-> seen.records])
                      /\ fs' = fetcher_persist(fs, rt_source, q, seen)
                      /\ results' = results \o seen.records
                      /\ fetch_stats' =
                            (rt_source :> stat_of(seen, results)) @@ fetch_stats
                      /\ rt_source' = ""
                      /\ rt_attempt' = 0
                      /\ pc' = "rt_loop"
    /\ UNCHANGED <<args, used_sources, afterLoopVars, flVars, ftVars, igVars>>

\* wait_fixed(2), then the next attempt
rt_wait ==
    /\ pc = "rt_wait"
    /\ rt_log' = [rt_log EXCEPT ![Len(rt_log)].events =
                     Append(@, <<"wait", WaitFixed>>)]
    /\ rt_attempt' = rt_attempt + 1
    /\ pc' = "rt_body"
    /\ UNCHANGED <<args, used_sources, results, fetch_stats, calls, fs,
                   rt_source, afterLoopVars, flVars, ftVars, igVars>>

\* the loop of line 88 is over
rt_end ==
    /\ pc = "rt_loop"
    /\ used_sources = <<>>
    /\ pc' = "rt_done"
    /\ UNCHANGED <<args, used_sources, results, fetch_stats, calls, fs,
                   afterLoopVars, flVars, ftVars, igVars, rtVars>>

InitRetry ==
    /\ pc = "rt_loop"
    /\ IdleStages
    /\ caller = "fetch_all"
    /\ \E q \in QuerySet, l \in RetryLists :
          args = [query |-> q, sources |-> l, deduplicate |-> FALSE,
                  query_mode |-> "classic", filter_metadata |-> FALSE,
                  fetch_fulltext |-> FALSE]
    /\ used_sources = initial_sources(args.sources)
    /\ results = <<>>
    /\ fetch_stats = <<>>
    /\ calls = <<>>
    /\ filtered = <<>>
    /\ retval = <<>>
    /\ fs \in {NoDataDir, DataDir(<<>>)}
    /\ source_dirs = <<>>
    /\ source = ""
    /\ json_files = <<>>
    /\ entries = <<>>
    /\ unique_entries = <<>>
    /\ seen_identifiers = {}
    /\ scanned = <<>>
    /\ deduped = <<>>
    /\ pass = 1
    /\ firstOut = <<>>
    /\ firstScanned = <<>>
    /\ raised = ""

NextRetry ==
    \/ rt_next
    \/ rt_body
    \/ rt_wait
    \/ rt_end

\* the interpreter keeps running the call: a step that can be taken is
\* taken
SpecRetry == InitRetry /\ [][NextRetry]_vars /\ WF_vars(NextRetry)

(***************************************************************************)
(* Properties of fetch_all.                                                *)
(***************************************************************************)
InFetchAll == caller = "fetch_all"

\* the part of the source list the loop has been through
Visited ==
    SubSeq(initial_sources(args.sources), 1,
           Len(initial_sources(args.sources)) - Len(used_sources))

IsRegistered(name) ==
    name \in {"pubmed", "websearch", "blog", "semanticscholar", "arxiv"}

CallSources == [k \in DOMAIN calls |-> calls[k].source]

\* the last call made for a source
LastCall(src) ==
    calls[CHOOSE k \in DOMAIN calls :
             /\ calls[k].source = src
             /\ \A j \in DOMAIN calls : calls[j].source = src => j <= k]

LoopOver == InFetchAll /\ used_sources = <<>> /\ pc # "fa_fetch"

RECURSIVE ConcatRecords(_)
ConcatRecords(cs) ==
    IF cs = <<>> THEN <<>> ELSE Head(cs).records \o ConcatRecords(Tail(cs))

Distinct(l) == \A i, j \in DOMAIN l : i # j => l[i] # l[j]

\* C1: a fetcher that raises does not end the loop: the loop is only left
\* at the end of the list, no fetcher error leaves fetch_all, every
\* registered name visited so far had its fetcher called (in list order),
\* and a source whose call raised is recorded failed, count 0, with the
\* error text.
C1_FailureIsolated ==
    InFetchAll =>
        /\ pc # "fa_fetch" => used_sources = <<>>
        /\ raised # "timeout"
        /\ CallSources = SelectSeq(Visited, IsRegistered)
        /\ \A k \in DOMAIN calls :
              LastCall(calls[k].source).kind = "raise" =>
                  fetch_stats[calls[k].source] =
                      [status |-> "failed", count |-> 0,
                       error |-> LastCall(calls[k].source).error]

\* C1 witness: the first source raised, was recorded failed, and the next
\* source was called all the same.
C1_Witness ==
    /\ InFetchAll
    /\ Len(calls) = 2
    /\ calls[1].kind = "raise" /\ calls[1].source = "websearch"
    /\ calls[2].kind = "return" /\ calls[2].source = "pubmed"
    /\ fetch_stats["websearch"].status = "failed"
    /\ fetch_stats["websearch"].error = "timeout"
    /\ fetch_stats["pubmed"].status = "success"

\* C2: after the loop over distinct names the report has one entry per
\* requested name: skipped/0 for an unknown name, failed/0 for a call that
\* raised, success with the number of returned records otherwise; results
\* is the concatenation of the returned lists in call order.
C2_ReportAndAggregate ==
    (LoopOver /\ Distinct(initial_sources(args.sources))) =>
        /\ DOMAIN fetch_stats =
              {initial_sources(args.sources)[i] :
                  i \in DOMAIN initial_sources(args.sources)}
        /\ \A name \in DOMAIN fetch_stats :
              IF ~IsRegistered(name)
              THEN fetch_stats[name].status = "skipped"
                   /\ fetch_stats[name].count = 0
              ELSE IF LastCall(name).kind = "raise"
                   THEN fetch_stats[name].status = "failed"
                        /\ fetch_stats[name].count = 0
                   ELSE fetch_stats[name].status = "success"
                        /\ fetch_stats[name].count = Len(LastCall(name).records)
        /\ results = ConcatRecords(calls)

\* C2 witness: sources [websearch, unknown, pubmed], websearch raises,
\* pubmed returns 3 records.
C2_Witness ==
    /\ LoopOver
    /\ args.sources = <<"websearch", "unknown", "pubmed">>
    /\ fetch_stats["websearch"].status = "failed"
    /\ fetch_stats["unknown"].status = "skipped"
    /\ fetch_stats["pubmed"] = [status |-> "success", count |-> 3, error |-> ""]
    /\ Len(results) = 3

NoneRegistered ==
    \A i \in DOMAIN initial_sources(args.sources) :
        ~IsRegistered(initial_sources(args.sources)[i])

EverySourceFailed ==
    /\ calls # <<>>
    /\ \A k \in DOMAIN calls : calls[k].kind = "raise"

\* C3: with deduplication enabled, when not every source failed, fetch_all
\* returns a list: no exception leaves it.
C3_NoCrashOnPartialFailure ==
    (InFetchAll /\ args.deduplicate /\ ~EverySourceFailed /\ ~NoneRegistered)
        => pc # "raised"

\* the deterministic rewrite of each query for each registered source:
\* operators and quoted phrases kept for the academic sources, trimming
\* for the web sources
ClassicRewrite ==
    [q \in QuerySet, src \in {"pubmed", "websearch", "blog", "semanticscholar", "arxiv"} |->
        IF src \in {"pubmed", "arxiv", "semanticscholar"}
        THEN advanced_classic_process(q) ELSE web_query_processor(q)]

\* C4: every call made in llm mode got the LLM rewrite or, when the LLM
\* raised, the classic rewrite of the original query; a failed rewrite
\* never skips the source.
C4_RewriteFallback ==
    InFetchAll =>
        /\ \A k \in DOMAIN calls :
              /\ calls[k].llm = "ok" => calls[k].query \in LLMRewrites
              /\ calls[k].llm # "ok" =>
                    calls[k].query = ClassicRewrite[args.query, calls[k].source]
              /\ args.query_mode = "llm" <=> calls[k].llm \in {"ok", "raise"}
        /\ Len(calls) = Len(SelectSeq(Visited, IsRegistered))

\* C4 witness: in llm mode the rewrite for pubmed raised and pubmed was
\* called with the classic rewrite.
C4_Witness ==
    /\ InFetchAll /\ args.query_mode = "llm"
    /\ args.query = " Cats AND dogs? "
    /\ Len(calls) = 2
    /\ calls[1].llm = "ok"
    /\ calls[2].llm = "raise" /\ calls[2].source = "pubmed"
    /\ calls[2].query = "cats AND dogs"

RecFields == {"doi", "pmid", "paperId", "pdf_url", "id", "link", "title"}

\* a record without the keys later stages add
Base(e) == [f \in RecFields |-> e[f]]

HandlingRaises(e) ==
    \/ "json" \in DOMAIN e
    \/ \E f \in {"pdf_url", "link"} :
          /\ Len(e[f]) >= 2 /\ SubSeq(e[f], 1, 1) = "#" /\ e[f] # "#0"
          /\ \A i \in 1..6 :
                (<<"doi", "pmid", "paperId", "pdf_url", "id", "link">>[i] = f)
                   => \A j \in 1..(i - 1) :
                         e[<<"doi", "pmid", "paperId", "pdf_url", "id", "link">>[j]]
                            \in {"", "#0"}

\* the identifier of an entry, stated without the loop: the value of the
\* first non-empty field in the order doi, pmid, paperId, pdf_url, id, link,
\* URL-normalised when that field is pdf_url or link; "" when all are empty
HasSomeId(e) == \E f \in {"doi", "pmid", "paperId", "pdf_url", "id", "link"} : e[f] # ""

Priority == <<"doi", "pmid", "paperId", "pdf_url", "id", "link">>

FirstNonEmptyField(e) ==
    Priority[CHOOSE i \in DOMAIN Priority :
                /\ e[Priority[i]] # ""
                /\ \A j \in 1..(i - 1) : e[Priority[j]] = ""]

ResolvedValue(e) ==
    IF ~HasSomeId(e) THEN ""
    ELSE IF FirstNonEmptyField(e) \in {"pdf_url", "link"}
         THEN normalize_url(e[FirstNonEmptyField(e)])
         ELSE e[FirstNonEmptyField(e)]

\* positions of s that carry an identifier no earlier position carries
FirstIdx(s) ==
    {i \in 1..Len(s) :
        /\ ResolvedValue(s[i]) # ""
        /\ \A j \in 1..(i - 1) : ResolvedValue(s[j]) # ResolvedValue(s[i])}

RECURSIVE Pick(_, _, _)
\* the subsequence of s at the positions of I that are >= i
Pick(s, I, i) ==
    IF i > Len(s) THEN <<>>
    ELSE (IF i \in I THEN <<s[i]>> ELSE <<>>) \o Pick(s, I, i + 1)

Returned == pc \in {"dd_returned", "fa_deduped"}

\* C6: the list deduplicate_metadata returns holds, in discovery order,
\* exactly the first entry read for each distinct resolved identifier: one
\* record per identifier, the first one in enumeration order.
C6_FirstOccurrencePerIdentifier ==
    (Returned /\ raised = "") =>
        /\ deduped = Pick(scanned, FirstIdx(scanned), 1)
        /\ \A i, j \in DOMAIN deduped :
              i # j => ResolvedValue(deduped[i]) # ResolvedValue(deduped[j])

\* C6 witness: a/ holds doi 10.1/x title T1, b/ holds doi 10.1/x title
\* T1-dup, a/ is listed first: one record, title T1.
C6_Witness ==
    /\ pc = "dd_returned" /\ pass = 1
    /\ scanned = <<R_T1, R_T1dup>>
    /\ source = "b"
    /\ deduped = <<R_T1>>

\* C7: the identifier the code resolves is the value of the first non-empty
\* field in the order doi, pmid, paperId, pdf_url, id, link; an entry with a
\* doi is dropped when a kept entry has the same doi, whatever their other
\* fields, and is kept when every kept entry has a different doi, even if
\* all other fields agree.
C7_PriorityOrder ==
    /\ [](\A i \in DOMAIN scanned :
              resolve_identifier(scanned[i]) = ResolvedValue(scanned[i]))
    /\ [][(pc = "dd_entry" /\ entries # <<>> /\ ~HandlingRaises(Head(entries))
              /\ Head(entries).doi # "") =>
             /\ (\E i \in DOMAIN unique_entries :
                    unique_entries[i].doi = Head(entries).doi)
                 => unique_entries' = unique_entries
             /\ (\A i \in DOMAIN unique_entries :
                    /\ unique_entries[i].doi # ""
                    /\ unique_entries[i].doi # Head(entries).doi)
                 => unique_entries' = Append(unique_entries, Head(entries))]_vars

\* C7 witness: T1 and T1-dup share the doi and differ in every other
\* identifier; T1 and the third record differ in the doi only.
C7_Witness ==
    /\ pc = "dd_returned" /\ pass = 1
    /\ scanned = <<R_T1, R_T1dup, R_doiY>>
    /\ deduped = <<R_T1, R_doiY>>

\* C8: an entry with an identifier is dropped exactly when a kept entry has
\* the same resolved value, whichever field supplied either value.
C8_ResolvedValueOnly ==
    [][(pc = "dd_entry" /\ entries # <<>> /\ ~HandlingRaises(Head(entries))
            /\ HasSomeId(Head(entries))
            /\ ResolvedValue(Head(entries)) # "") =>
         IF \E i \in DOMAIN unique_entries :
               ResolvedValue(unique_entries[i]) = ResolvedValue(Head(entries))
         THEN unique_entries' = unique_entries
         ELSE unique_entries' = Append(unique_entries, Head(entries))]_vars

\* C8 witness: pmid 123, then id 123: the second is dropped.
C8_Witness ==
    /\ pc = "dd_returned" /\ pass = 1
    /\ scanned = <<R_pmid, R_id>>
    /\ deduped = <<R_pmid>>

\* C9: an entry whose six identifier fields are all empty is never in the
\* unique set nor in the returned list, and after it the loop goes on with
\* the next entry of the same file.
C9_UnidentifiedDropped ==
    /\ [](/\ \A i \in DOMAIN unique_entries : HasSomeId(unique_entries[i])
          /\ \A i \in DOMAIN deduped : HasSomeId(deduped[i]))
    /\ [][(pc = "dd_entry" /\ entries # <<>> /\ ~HandlingRaises(Head(entries))
              /\ ~HasSomeId(Head(entries))) =>
             /\ unique_entries' = unique_entries
             /\ entries' = Tail(entries)
             /\ pc' = "dd_entry"]_vars

\* C9 witness: a file [P, N, I] where N has no identifier; I, after N, is
\* still processed (dropped here as the duplicate of P, but scanned), and a
\* later file still contributes.
C9_Witness ==
    /\ pc = "dd_returned" /\ pass = 1
    /\ scanned = <<R_pmid, R_none, R_id, R_pdf, R_link>>
    /\ deduped = <<R_pmid, R_pdf>>

\* C10: a pass over the output of a pass returns that output again, and so
\* does a second call that reads the unchanged source files in the same
\* order.
C10_Idempotent ==
    (pc = "dd_returned" /\ raised = "") =>
        /\ pass = 2 => deduped = firstOut
        /\ (pass = 3 /\ scanned = firstScanned) => deduped = firstOut

\* C10 witness: the second pass over a two-record output has returned.
C10_Witness ==
    /\ pc = "dd_returned" /\ pass = 2
    /\ Len(firstScanned) > Len(firstOut)
    /\ Len(firstOut) >= 2
    /\ deduped = firstOut

\* the URL of the field that decides the identifier of e, "" when the
\* identifier does not come from pdf_url or link
DecidingUrl(e) ==
    IF HasSomeId(e) /\ FirstNonEmptyField(e) \in {"pdf_url", "link"}
    THEN e[FirstNonEmptyField(e)] ELSE ""

StartsWith(s, prefix) ==
    Len(s) >= Len(prefix) /\ SubSeq(s, 1, Len(prefix)) = prefix

\* a URL without its leading http:// or https://
WithoutProtocol(u) ==
    IF StartsWith(u, "https://") THEN SubSeq(u, 9, Len(u))
    ELSE IF StartsWith(u, "http://") THEN SubSeq(u, 8, Len(u))
    ELSE u

\* a URL without one trailing slash
WithoutTrailingSlash(u) ==
    IF Len(u) > 0 /\ SubSeq(u, Len(u), Len(u)) = "/"
    THEN SubSeq(u, 1, Len(u) - 1) ELSE u

SameButProtocol(u, v) ==
    u # "" /\ v # "" /\ WithoutProtocol(u) = WithoutProtocol(v)

SameButTrailingSlash(u, v) ==
    u # "" /\ v # "" /\ WithoutTrailingSlash(u) = WithoutTrailingSlash(v)

\* C11: two scanned records whose identifiers come from pdf_url or link and
\* whose URLs differ at most in the protocol resolve to the same identifier,
\* and neither the unique set nor the returned list ever holds two such
\* records.
C11_ProtocolInsensitive ==
    /\ \A i, j \in DOMAIN scanned :
          (i < j /\ SameButProtocol(DecidingUrl(scanned[i]),
                                    DecidingUrl(scanned[j]))) =>
             resolve_identifier(scanned[i]) = resolve_identifier(scanned[j])
    /\ \A a, b \in DOMAIN unique_entries :
          (a < b) => ~SameButProtocol(DecidingUrl(unique_entries[a]),
                                      DecidingUrl(unique_entries[b]))
    /\ \A a, b \in DOMAIN deduped :
          (a < b) => ~SameButProtocol(DecidingUrl(deduped[a]),
                                      DecidingUrl(deduped[b]))

C11_Witness ==
    /\ pc = "dd_returned" /\ pass = 1
    /\ scanned = <<R_pdf, R_link>>
    /\ deduped = <<R_pdf>>

\* C12: two scanned records whose identifiers come from pdf_url or link and
\* whose URLs differ at most by a trailing slash resolve to the same
\* identifier, and the returned list never holds two such records.
C12_TrailingSlashInsensitive ==
    /\ \A i, j \in DOMAIN scanned :
          (i < j /\ SameButTrailingSlash(DecidingUrl(scanned[i]),
                                         DecidingUrl(scanned[j]))) =>
             resolve_identifier(scanned[i]) = resolve_identifier(scanned[j])
    /\ \A a, b \in DOMAIN deduped :
          (a < b) => ~SameButTrailingSlash(DecidingUrl(deduped[a]),
                                           DecidingUrl(deduped[b]))

\* the places of the project where a record can be read: source directory,
\* parsable .json file, position in the file
\* the places of the entries the scan handles: every entry of a parsable
\* file of a source directory that no entry whose handling raises precedes
Slots ==
    IF ~fs.exists THEN {}
    ELSE UNION {UNION {{<<d, x, i>> : i \in {k \in DOMAIN fs.nodes[d].files[x].data :
                                   \A j \in 1..k :
                                      ~HandlingRaises(fs.nodes[d].files[x].data[j])}} :
                    x \in {y \in list_json_files(fs, d) :
                              fs.nodes[d].files[y].kind \in {"list", "dict"}}} :
                d \in list_source_dirs(fs)}

SlotRecord(slot) == fs.nodes[slot[1]].files[slot[2]].data[slot[3]]

Unparsable(d) ==
    IF ~fs.exists \/ d \notin list_source_dirs(fs) THEN {}
    ELSE {x \in list_json_files(fs, d) : fs.nodes[d].files[x].kind = "malformed"}

\* C13: a file that does not parse adds nothing to the unique set and the
\* loop goes on with the next file of the directory; when the scan returns,
\* the entries read are exactly the entries of every parsable .json file of
\* every source directory, and nothing was raised.
C13_MalformedFileSkipped ==
    /\ []((pc = "dd_returned" /\ pass = 1) =>
            /\ raised = ""
            /\ Len(scanned) = Cardinality(Slots)
            /\ \A s \in Slots :
                  Cardinality({i \in DOMAIN scanned : scanned[i] = SlotRecord(s)})
                    = Cardinality({t \in Slots : SlotRecord(t) = SlotRecord(s)}))
    /\ [][(pc = "dd_file" /\ json_files # <<>>
             /\ fs.nodes[source].files[Head(json_files)].kind = "malformed") =>
            /\ pc' = "dd_file"
            /\ json_files' = Tail(json_files)
            /\ unique_entries' = unique_entries
            /\ scanned' = scanned]_vars

C13_Witness ==
    /\ pc = "dd_returned" /\ pass = 1
    /\ Unparsable("a") = {"bad.json"}
    /\ Len(scanned) = 3
    /\ deduped = <<R_T1, R_pmid>>

\* C14: called for a project without source directories, the directory
\* data/<project> itself missing included, deduplicate_metadata raises
\* nothing and returns the empty list.
C14_NoSourcesEmptyList ==
    (pass = 1 /\ caller = "direct" /\ pc # "dd_listdir"
        /\ (~fs.exists \/ list_source_dirs(fs) = {})) =>
       /\ pc = "dd_returned"
       /\ raised = ""
       /\ deduped = <<>>

\* C15: whenever deduplicate_metadata has returned a list, the file
\* deduplicated/metadata.json of the project holds exactly that list.
C15_CanonicalFileHoldsResult ==
    (pc = "dd_returned") =>
       /\ fs.exists
       /\ "deduplicated" \in DOMAIN fs.nodes
       /\ "metadata.json" \in DOMAIN fs.nodes["deduplicated"].files
       /\ fs.nodes["deduplicated"].files["metadata.json"] = JsonList(deduped)

\* some character of the title or of the summary is not white space
NonBlankText(e) ==
    \E i \in 1..Len(e.title \o e.summary) :
        SubSeq(e.title \o e.summary, i, i) \notin {" ", "\t", "\n", "\r"}

\* published starts with four digits that form a year >= y
YearAtLeast(e, y) ==
    /\ Len(e.published) >= 4
    /\ \A i \in 1..4 : \E d \in 0..9 : SubSeq(e.published, i, i) = ToString(d)
    /\ str_to_int(SubSeq(e.published, 1, 4), 0) >= y

\* the year filter is in force: a min_year other than None and 0
YearFilterOn == fl_args.min_year # <<>> /\ fl_args.min_year[1] # 0

WithScore(seq) ==
    [k \in DOMAIN seq |->
        [x \in DOMAIN seq[k] \cup {"semantic_similarity"} |->
            IF x = "semantic_similarity" THEN SimilarityPct(seq[k])
            ELSE seq[k][x]]]

WithoutScore(seq) ==
    [k \in DOMAIN seq |->
        [x \in DOMAIN seq[k] \ {"semantic_similarity"} |-> seq[k][x]]]

FilterReturned == pc = "fl_returned"

C17_ZeroThresholdKeepsAll ==
    (FilterReturned /\ fl_args.min_similarity = 0 /\ fl_args.min_year = <<>>) =>
       WithoutScore(fl_filtered) = SelectSeq(fl_input, NonBlankText)

\* C17: with min_similarity 0 and no min_year the filter returns every input
\* record whose text is non-blank and whose score is not negative, in input
\* order and unchanged but for the added semantic_similarity; a record with
\* a negative score is left out.
C17_ZeroThresholdKeepsNonNegative ==
    (FilterReturned /\ fl_args.min_similarity = 0 /\ fl_args.min_year = <<>>) =>
       /\ LET Keep(e) == NonBlankText(e) /\ SimilarityPct(e) >= 0
          IN  WithoutScore(fl_filtered) = SelectSeq(fl_input, Keep)
       /\ \A k \in DOMAIN fl_filtered :
             /\ DOMAIN fl_filtered[k] =
                   DOMAIN F_hit \cup {"semantic_similarity"}
             /\ fl_filtered[k].semantic_similarity >= 0

C17_Witness ==
    /\ FilterReturned
    /\ fl_args = [min_year |-> <<>>, min_similarity |-> 0]
    /\ fl_input = <<F_neg, F_zero>>
    /\ fl_filtered = WithScore(<<F_zero>>)

\* C18: whenever a min_year is given, the returned records are exactly the
\* input records whose published value starts with a four-digit year
\* >= min_year and that pass the similarity test; a record without such a
\* year is never returned.
C18_YearFilter ==
    (FilterReturned /\ fl_args.min_year # <<>>) =>
       LET Keep(e) ==
               /\ YearAtLeast(e, fl_args.min_year[1])
               /\ NonBlankText(e)
               /\ SimilarityPct(e) >= fl_args.min_similarity
       IN  WithoutScore(fl_filtered) = SelectSeq(fl_input, Keep)

\* C19: a failure of the embedding model on a record never escapes
\* filter_metadata_semantic.
C19_EmbeddingFailureIsolated ==
    ~(pc = "raised" /\ raised = "EmbeddingError")

\* position of a strategy in the order of the code
StrategyIndex(strategy) ==
    [pdf_url |-> 1, doi |-> 2, pmid |-> 3, link |-> 4][strategy]

\* the entry, as passed in, that fetch_full_text_for_entry is working on
CurrentInput == ft_input[Len(ft_input) - Len(ft_list)]

\* the strategies whose field is non-empty in the entry as passed in
Applicable == {st \in {"pdf_url", "doi", "pmid", "link"} : CurrentInput[st] # ""}

Attempted == {ft_attempts[k][1] : k \in DOMAIN ft_attempts}

\* C20: for the entry being processed, the attempts follow the order
\* pdf_url, doi, pmid, link; only strategies whose field is non-empty are
\* attempted; every attempt but the last failed; when the entry is done,
\* either the last attempt succeeded, every applicable strategy before it
\* was attempted and none after it, and the entry is marked success with
\* the type of that strategy, or every applicable strategy was attempted
\* and failed, whatever the kind of failure, and the entry is not_found.
C20_StrategyOrder ==
    (pc \in {"ft_chain", "ft_append"}) =>
       /\ \A j, k \in DOMAIN ft_attempts :
             j < k => StrategyIndex(ft_attempts[j][1]) < StrategyIndex(ft_attempts[k][1])
       /\ Attempted \subseteq Applicable
       /\ \A k \in DOMAIN ft_attempts :
             k < Len(ft_attempts) => ft_attempts[k][2] # "ok"
       /\ (pc = "ft_append") =>
             IF ft_attempts # <<>> /\ ft_attempts[Len(ft_attempts)][2] = "ok"
             THEN LET last == ft_attempts[Len(ft_attempts)][1]
                  IN  /\ Attempted = {st \in Applicable :
                                         StrategyIndex(st) <= StrategyIndex(last)}
                      /\ ft_entry.fulltext_status = "success"
                      /\ ft_entry.fulltext_type =
                            (IF last = "link" THEN "html" ELSE "pdf")
             ELSE /\ Attempted = Applicable
                  /\ ft_entry.fulltext_status = "not_found"

C20_Witness ==
    /\ pc = "ft_append"
    /\ CurrentInput = R_pdf
    /\ ft_attempts = << <<"pdf_url", "http_error">>, <<"link", "ok">> >>
    /\ ft_entry.fulltext_status = "success"
    /\ ft_entry.fulltext_type = "html"

\* the value each strategy writes to fulltext_status when it fails
FailureReason(strategy) ==
    [pdf_url |-> "pdf_url_failed", doi |-> "unpaywall_failed",
     pmid |-> "pmc_failed", link |-> "html_failed"][strategy]

\* C21: while the chain of an entry is running, fulltext_status holds the
\* reason of the strategy that failed last: pdf_url_failed after a pdf_url
\* whose response was not a PDF; and when the entry has a DOI the attempt
\* that follows this failure is the DOI lookup.
C21_FailureReasonRecorded ==
    /\ (pc = "ft_chain" /\ ft_attempts # <<>>) =>
          LET last == ft_attempts[Len(ft_attempts)]
          IN  /\ last[2] # "ok"
              /\ ft_entry.fulltext_status = FailureReason(last[1])
    /\ (/\ pc \in {"ft_chain", "ft_append"}
        /\ ft_attempts # <<>>
        /\ ft_attempts[1] = <<"pdf_url", "wrong_type">>
        /\ CurrentInput.doi # "") =>
          /\ (pc = "ft_append" \/ ft_i > 2) => Len(ft_attempts) >= 2
          /\ Len(ft_attempts) >= 2 => ft_attempts[2][1] = "doi"

C21_Witness ==
    /\ pc = "ft_chain"
    /\ CurrentInput = R_T1dup
    /\ ft_attempts = << <<"pdf_url", "wrong_type">>, <<"doi", "no_oa_location">> >>
    /\ ft_entry.fulltext_status = "unpaywall_failed"

\* a result carries every key of the entry passed in, with the same value
KeepsFieldsOf(result, entry) ==
    \A key \in DOMAIN entry : key \in DOMAIN result /\ result[key] = entry[key]

\* the entry as passed in, marked not_found, with the empty full_text
NotFoundOf(entry) ==
    [key \in DOMAIN entry \cup {"full_text", "fulltext_status"} |->
        IF key = "full_text" THEN ""
        ELSE IF key = "fulltext_status" THEN "not_found"
        ELSE entry[key]]

NoFulltextField(entry) ==
    \A st \in {"pdf_url", "doi", "pmid", "link"} : entry[st] = ""

\* C22: fetch_full_text_for_all never drops a record: result k is input k
\* with all its fields, the returned list has the length of the input, an
\* entry whose attempts all failed is appended as the input entry marked
\* not_found, and so is an entry with no pdf_url, doi, pmid and link.
C22_NoRecordDropped ==
    /\ Len(ft_results) <= Len(ft_input)
    /\ \A k \in DOMAIN ft_results :
          /\ KeepsFieldsOf(ft_results[k], ft_input[k])
          /\ NoFulltextField(ft_input[k]) => ft_results[k] = NotFoundOf(ft_input[k])
    /\ (pc \in {"ft_loop", "ft_returned"}) =>
          Len(ft_results) + Len(ft_list) = Len(ft_input)
    /\ (pc = "ft_returned") =>
          /\ Len(ft_results) = Len(ft_input)
          /\ fs.nodes["deduplicated"].files["metadata_with_fulltext.json"]
                = [kind |-> "list", data |-> ft_results]
    /\ (/\ pc = "ft_append"
        /\ \A k \in DOMAIN ft_attempts : ft_attempts[k][2] # "ok") =>
          ft_entry = NotFoundOf(CurrentInput)

C22_Witness ==
    /\ pc = "ft_returned"
    /\ ft_input = <<R_none, R_pdf>>
    /\ Len(ft_results) = 2
    /\ ft_results[1] = NotFoundOf(R_none)
    /\ ft_results[2] = NotFoundOf(R_pdf)

\* the keys of a result that the entry passed in did not have
AddedKeys(result, entry) == DOMAIN result \ DOMAIN entry

\* C23 as stated: the stage leaves every key of the entry as it was, and
\* the keys it adds are among fulltext_path, fulltext_status, fulltext_type
\* and full_text.
C23_OnlyFourKeysAdded ==
    /\ \A k \in DOMAIN ft_results :
          /\ KeepsFieldsOf(ft_results[k], ft_input[k])
          /\ AddedKeys(ft_results[k], ft_input[k]) \subseteq
                {"fulltext_path", "fulltext_status", "fulltext_type", "full_text"}
    /\ (pc \in {"ft_chain", "ft_append"}) =>
          /\ KeepsFieldsOf(ft_entry, CurrentInput)
          /\ AddedKeys(ft_entry, CurrentInput) \subseteq
                {"fulltext_path", "fulltext_status", "fulltext_type", "full_text"}

\* C23, amended: the stage leaves every key of the entry as it was,
\* fetch_date among them; the keys it adds are among fulltext_path,
\* fulltext_status, fulltext_type, full_text and fulltext_pdf_url, and
\* fulltext_pdf_url is added exactly when the open-access lookup by DOI is
\* the strategy that succeeded.
C23_OnlyAddsKeys ==
    /\ \A k \in DOMAIN ft_results :
          /\ KeepsFieldsOf(ft_results[k], ft_input[k])
          /\ ft_results[k].fetch_date = ft_input[k].fetch_date
          /\ AddedKeys(ft_results[k], ft_input[k]) \subseteq
                {"fulltext_path", "fulltext_status", "fulltext_type",
                 "full_text", "fulltext_pdf_url"}
          /\ "fulltext_pdf_url" \in DOMAIN ft_results[k] =>
                /\ ft_input[k].doi # ""
                /\ ft_results[k].fulltext_status = "success"
                /\ ft_results[k].fulltext_type = "pdf"
    /\ (pc \in {"ft_chain", "ft_append"}) =>
          /\ KeepsFieldsOf(ft_entry, CurrentInput)
          /\ AddedKeys(ft_entry, CurrentInput) \subseteq
                {"fulltext_path", "fulltext_status", "fulltext_type",
                 "full_text", "fulltext_pdf_url"}
          /\ "fulltext_pdf_url" \in DOMAIN ft_entry <=>
                /\ ft_attempts # <<>>
                /\ ft_attempts[Len(ft_attempts)] = <<"doi", "ok">>

C23_Witness ==
    /\ pc = "ft_returned"
    /\ ft_input = <<R_T1>>
    /\ DOMAIN ft_results[1] =
          DOMAIN R_T1 \cup {"fulltext_path", "fulltext_status", "fulltext_type",
                            "full_text", "fulltext_pdf_url"}
    /\ ft_results[1].fetch_date = "2024-05-01T10:00:00"
    /\ ft_results[1].doi = "10.1/x"

\* what C28 says of an entry that fetch_full_text_for_entry returned
FinalStatusOf(result) ==
    /\ result.fulltext_status \in {"success", "not_found"}
    /\ result.fulltext_status = "success" <=>
          {"fulltext_path", "fulltext_type"} \subseteq DOMAIN result
    /\ result.fulltext_status = "success" =>
          /\ result.fulltext_type \in {"pdf", "html"}
          /\ StartsWith(result.fulltext_path, "fulltext/")
          /\ result.fulltext_type = "pdf" <=>
                str_endswith(result.fulltext_path, ".pdf")
          /\ result.fulltext_type = "html" <=>
                str_endswith(result.fulltext_path, ".html")

\* C28: an entry that fetch_full_text_for_entry returns has fulltext_status
\* success or not_found, never one of the failure reasons, also after
\* failed attempts; it is success exactly when fulltext_path and
\* fulltext_type are present, and the type is pdf exactly when the path is
\* the .pdf path and html exactly when it is the .html path.
C28_FinalStatus ==
    /\ \A k \in DOMAIN ft_results : FinalStatusOf(ft_results[k])
    /\ (pc = "ft_append") => FinalStatusOf(ft_entry)

C28_Witness ==
    /\ pc = "ft_append"
    /\ Len(ft_results) = 1
    /\ ft_input = <<R_link, R_pdf>>
    /\ ft_results[1].fulltext_status = "success"
    /\ ft_results[1].fulltext_type = "html"
    /\ ft_results[1].fulltext_path = "fulltext/https___h_p.html"
    /\ ft_attempts = << <<"pdf_url", "wrong_type">>, <<"link", "timeout">> >>
    /\ ft_entry.fulltext_status = "not_found"

\* the number of pauses in the log of the run
Sleeps == Cardinality({k \in DOMAIN ft_log : ft_log[k][1] = "sleep"})

\* the events logged since the chain of the current entry began
EventsOfCurrentEntry ==
    SubSeq(ft_log, Len(ft_log) - Len(ft_attempts) + 1, Len(ft_log))

\* C26: there is exactly one pause per entry handled, it comes after the
\* whole chain of the entry and before the next entry is taken, and no
\* pause comes between the strategies of an entry.
C26_OneDelayPerRecord ==
    /\ Sleeps = Len(ft_results)
    /\ (pc = "ft_returned") => Sleeps = Len(ft_input)
    /\ (pc \in {"ft_loop", "ft_returned"} /\ ft_results # <<>>) =>
          ft_log[Len(ft_log)][1] = "sleep"
    /\ (pc \in {"ft_chain", "ft_append"}) =>
          /\ Len(ft_log) >= Len(ft_attempts)
          /\ \A k \in DOMAIN ft_attempts :
                /\ EventsOfCurrentEntry[k][1] = "attempt"
                /\ EventsOfCurrentEntry[k][2] = ft_attempts[k][1]
          /\ Len(ft_log) > Len(ft_attempts) =>
                ft_log[Len(ft_log) - Len(ft_attempts)][1] = "sleep"
          /\ (Len(ft_log) = Len(ft_attempts)) <=> (ft_results = <<>>)

C26_Witness ==
    /\ pc = "ft_returned"
    /\ ft_input = <<R_pdf, R_none>>
    /\ ft_log = << <<"attempt", "pdf_url", "failed">>, <<"attempt", "link", "ok">>,
                   <<"sleep", "", "">>, <<"sleep", "", "">> >>

\* an id as C24 wants it: non-empty and made of letters, digits, "_", "."
\* and "-" only
ConformingId(id) ==
    /\ id # ""
    /\ \A i \in 1..Len(id) :
          \E j \in 1..65 :
             SubSeq("abcdefghijklmnopqrstuvwxyzABCDEFGHIJKLMNOPQRSTUVWXYZ0123456789_.-",
                    j, j) = SubSeq(id, i, i)

WithIdOrLink == SelectSeq(ft_results, LAMBDA e : e.id # "" \/ e.link # "")

StageOf(p) ==
    IF p = "fa_fetch" THEN 1
    ELSE IF p \in {"dd_listdir", "dd_source", "dd_file", "dd_entry", "dd_save"} THEN 2
    ELSE IF p = "fa_deduped" THEN 3
    ELSE IF p = "fa_filtered" THEN 4
    ELSE 5

\* the record passes the semantic filter as fetch_all calls it
PassesFilter(e) ==
    LET text == dict_get(e, "title", "") \o " " \o dict_get(e, "summary", "")
    IN  /\ \E i \in 1..Len(text) : SubSeq(text, i, i) \notin {" ", "\t", "\n", "\r"}
        /\ SimilarityPct(e) >= 50

\* what the filter stage hands on
FilterStageOutput ==
    IF args.filter_metadata
    THEN /\ Len(filtered) = Len(SelectSeq(deduped, PassesFilter))
         /\ WithoutScore(filtered) = SelectSeq(deduped, PassesFilter)
    ELSE filtered = deduped

\* what the full-text stage returns
FulltextStageOutput ==
    IF args.fetch_fulltext
    THEN /\ Len(retval) = Len(filtered)
         /\ \A k \in DOMAIN retval :
               /\ KeepsFieldsOf(retval[k], filtered[k])
               /\ "fulltext_status" \in DOMAIN retval[k]
    ELSE retval = filtered

\* control never goes back to an earlier stage, no fetcher is called and no
\* result added once the fetch loop is left, and deduplication starts only
\* when every source has been visited
StageOrder ==
    /\ StageOf(pc') >= StageOf(pc)
    /\ StageOf(pc) > 1 => (calls' = calls /\ results' = results)
    /\ (StageOf(pc) = 1 /\ StageOf(pc') > 1) => used_sources = <<>>
    /\ StageOf(pc) > 3 => deduped' = deduped
    /\ StageOf(pc) > 4 => filtered' = filtered

\* every stage works on what the stage before it left
StageOutputs ==
    /\ (pc = "fa_fetch") =>
          scanned = <<>> /\ deduped = <<>> /\ filtered = <<>> /\ retval = <<>>
    /\ (StageOf(pc) \in {2, 3}) =>
          used_sources = <<>> /\ filtered = <<>> /\ retval = <<>>
    /\ (pc = "fa_filtered") => (FilterStageOutput /\ retval = <<>>)
    /\ (pc = "fa_done" /\ args.deduplicate) =>
          FilterStageOutput /\ FulltextStageOutput
    /\ (pc = "fa_done" /\ ~args.deduplicate) =>
          /\ retval = results
          /\ scanned = <<>> /\ deduped = <<>> /\ filtered = <<>>
          /\ \A k \in DOMAIN retval :
                DOMAIN retval[k] \cap {"semantic_similarity", "fulltext_status"} = {}

\* C25: the stages of fetch_all run one after the other: the fetches, then
\* deduplication, then the filter, then full-text retrieval, control never
\* going back; the filter stage yields the deduplicated records that pass
\* the filter, or the deduplicated list itself when filtering is off; the
\* full-text stage returns one record per record of that list, or that
\* list itself when full text is off; and with deduplication off no later
\* stage runs and the raw results are returned.
C25_StagesSequential == []StageOutputs /\ [][StageOrder]_vars

C25_Witness ==
    /\ pc = "fa_done"
    /\ args.deduplicate /\ args.filter_metadata /\ args.fetch_fulltext
    /\ Len(deduped) = 2
    /\ Len(filtered) = 1
    /\ Len(retval) = 1
    /\ retval[1].semantic_similarity = 80
    /\ retval[1].fulltext_status = "success"

RECURSIVE SuccessTotal(_)
\* the sum of the counts of the success entries of the report for the names
\* in S
SuccessTotal(S) ==
    IF S = {} THEN 0
    ELSE LET name == CHOOSE x \in S : TRUE
         IN  (IF fetch_stats[name].status = "success"
              THEN fetch_stats[name].count ELSE 0)
             + SuccessTotal(S \ {name})

\* the number of calls made to the fetcher of a source
CallsTo(name) == Cardinality({k \in DOMAIN calls : calls[k].source = name})

\* C30: when the fetch loop is over, the counts of the success entries of
\* the report add up to the number of records in results, and the fetcher
\* of every requested registered source was called exactly once, whatever
\* the requested list, a list naming a source twice included.
C30_ReportTotalsMatch ==
    (InFetchAll /\ used_sources = <<>>) =>
        /\ SuccessTotal(DOMAIN fetch_stats) = Len(results)
        /\ \A i \in DOMAIN initial_sources(args.sources) :
              initial_sources(args.sources)[i] \in
                    {"pubmed", "websearch", "blog", "semanticscholar", "arxiv"}
                 => CallsTo(initial_sources(args.sources)[i]) = 1

\* the attempts of a logged call: the events at the odd positions
AttemptsOf(call) == (Len(call.events) + 1) \div 2

\* the events of a call are attempts separated by waits of 2 seconds, no
\* attempt after one that returned, at most 3 attempts for a decorated
\* fetcher and one for the others
BoundedCall(call) ==
    /\ \A i \in DOMAIN call.events :
          IF i % 2 = 1
          THEN /\ call.events[i][1] \in {"raise", "return"}
               /\ i < Len(call.events) => call.events[i][1] = "raise"
          ELSE call.events[i] = <<"wait", 2>>
    /\ AttemptsOf(call) <=
          (IF call.source \in {"pubmed", "websearch", "semanticscholar", "arxiv"}
           THEN 3 ELSE 1)

\* call k is over and its last attempt raised
GaveUp(k) ==
    /\ k <= Len(calls)
    /\ rt_log[k].events # <<>>
    /\ rt_log[k].events[Len(rt_log[k].events)][1] = "raise"

RetrySafe ==
    /\ rt_attempt <= 3
    /\ Len(rt_log) \in {Len(calls), Len(calls) + 1}
    /\ Len(rt_log) = Len(calls) + 1 <=> pc \in {"rt_body", "rt_wait"}
    /\ \A k \in DOMAIN rt_log :
          /\ BoundedCall(rt_log[k])
          /\ k <= Len(calls) =>
                /\ Len(rt_log[k].events) % 2 = 1
                /\ calls[k].source = rt_log[k].source
                /\ calls[k].kind = rt_log[k].events[Len(rt_log[k].events)][1]
          /\ GaveUp(k) =>
                /\ rt_log[k].source \in {"pubmed", "websearch", "semanticscholar", "arxiv"}
                      => AttemptsOf(rt_log[k]) = 3
                /\ (\A j \in DOMAIN calls : calls[j].source = calls[k].source => j <= k)
                      => fetch_stats[calls[k].source].status = "failed"
    /\ (pc = "rt_done") =>
          Len(calls) = Len(SelectSeq(initial_sources(args.sources), IsRegistered))

\* C27: a fetcher call makes at most 3 attempts when the fetcher carries
\* the retry decorator, with a wait of 2 seconds between two attempts; an
\* attempt that returns is the last; when the third attempt raises the
\* source is recorded failed and the loop goes on with the next source; and
\* the loop always comes to its end.
C27_BoundedRetry == []RetrySafe /\ <>(pc = "rt_done")

C27_Witness ==
    /\ pc = "rt_done"
    /\ args.sources = <<"pubmed", "blog">>
    /\ rt_log[1].events = << <<"raise", 0>>, <<"wait", 2>>, <<"raise", 0>>,
                             <<"wait", 2>>, <<"raise", 0>> >>
    /\ fetch_stats["pubmed"].status = "failed"
    /\ rt_log[2].events = << <<"return", 0>> >>
    /\ fetch_stats["blog"].status = "success"

\* the places of the entries whose handling raises in a parsable file
RaisingSlots ==
    IF ~fs.exists THEN {}
    ELSE UNION {UNION {{<<d, x, i>> : i \in {k \in DOMAIN fs.nodes[d].files[x].data :
                                   HandlingRaises(fs.nodes[d].files[x].data[k])}} :
                    x \in {y \in list_json_files(fs, d) :
                              fs.nodes[d].files[y].kind \in {"list", "dict"}}} :
                d \in list_source_dirs(fs)}

\* C29: when handling an entry raises, the unique set and the seen set stay
\* as they are, the rest of the file is dropped without being handled, the
\* other files and directories stay to be scanned, and nothing is raised to
\* the caller; when the scan returns, the entries handled are exactly the
\* entries that come before the first raising entry of their file, and each
\* of them with an identifier is represented in the result.
C29_FileNotAtomic ==
    /\ [][(pc = "dd_entry" /\ entries # <<>> /\ HandlingRaises(Head(entries))) =>
            /\ unique_entries' = unique_entries
            /\ seen_identifiers' = seen_identifiers
            /\ scanned' = scanned
            /\ entries' = <<>>
            /\ json_files' = json_files
            /\ source_dirs' = source_dirs
            /\ pc' = "dd_entry"
            /\ raised' = ""]_vars
    /\ []((pc = "dd_returned" /\ pass = 1) =>
            /\ raised = ""
            /\ Len(scanned) = Cardinality(Slots)
            /\ \A s \in Slots :
                  \/ ResolvedValue(SlotRecord(s)) = ""
                  \/ \E k \in DOMAIN deduped :
                        ResolvedValue(deduped[k]) = ResolvedValue(SlotRecord(s)))

C29_Witness ==
    /\ pc = "dd_returned" /\ pass = 1
    /\ <<"a", "metadata.json", 3>> \in RaisingSlots
    /\ fs.nodes["a"].files["metadata.json"].data[3] = R_numlink
    /\ scanned = <<R_pmid, R_T1dup, R_doiY>>
    /\ deduped = <<R_pmid, R_T1dup, R_doiY>>

====
